---- MODULE Spec2Model ----
(***************************************************************************)
(* A model of the consensus bookkeeping of casper-node.                    *)
(*                                                                         *)
(* Era (node/src/components/consensus/era_supervisor/era.rs): the pending  *)
(* candidate blocks of one era, its slashed validators and the accusations *)
(* collected from finalized blocks.  EraId: the era counter, a u64.        *)
(*                                                                         *)
(* The fields consensus (except for the validators it was told are         *)
(* faulty), start_time, start_height and validators of Era are never read  *)
(* or written by the operations modelled here and are left out.            *)
(***************************************************************************)
EXTENDS Integers, Sequences, FiniteSets, TLC

(***************************************************************************)
(* Bounds and universes of the inputs.                                     *)
(***************************************************************************)
\* Number of distinct candidate blocks an era is offered.
NumCandidates == 2

\* Longest list of accusations carried by one finalized block.
MaxAccusations == 2

\* Validator public keys; PublicKey is Ord, modelled by the order of the integers.
Validators == {1, 2, 3}

\* Validators a candidate block may accuse (the keys of missing_evidence lists).
Accused == {1, 2}

\* Proto blocks candidates refer to.
ProtoBlocks == {"b1", "b2"}

CandidateIds == 1 .. NumCandidates

Range(s) == {s[i] : i \in DOMAIN s}

\* All sequences over S of length at most n.
SeqsUpTo(S, n) == UNION {[1 .. k -> S] : k \in 0 .. n}

\* missing_evidence lists given to add_candidate: a Vec, so order and repetition count.
MissingEvidenceLists == SeqsUpTo(Accused, Cardinality(Accused))

VARIABLES
    candidates,     \* Era::candidates: Vec<PendingCandidate>
    newly_slashed,  \* Era::newly_slashed: Vec<PublicKey>
    slashed,        \* Era::slashed: HashSet<PublicKey>
    accusations,    \* Era::accusations: HashSet<PublicKey>
    faulty,         \* the keys Era::consensus was told are faulty (mark_faulty)
    op,             \* the last operation called on the era, with its argument
    ret,            \* what that operation returned
    hist,           \* per candidate: what the calls since its add_candidate were
    accused,        \* every key ever passed to add_accusations
    script,         \* the position of the caller in the scenario of SpecScenario
    era_id,         \* an EraId e
    overflow_checks,\* whether the build checks integer arithmetic for overflow
    id_pc,          \* how far the evaluation of e.successor().checked_sub(x) is
    id_x,           \* the argument x of checked_sub
    id_successor,   \* e.successor()
    id_result,      \* e.successor().checked_sub(x)
    id_bytes,       \* e.to_bytes()
    id_length,      \* e.serialized_length()
    id_stream,      \* the bytes handed to EraId::from_bytes
    id_decoded,     \* EraId::from_bytes of them
    id_iter,        \* what e.iter_bonded(x) and e.iter_other(x) yield
    meter,          \* a RoundSuccessMeter
    now,            \* the clock, as Timestamp::now() last read it
    m_op,           \* the last operation called on the meter, with its arguments
    m_ret,          \* the exponent that operation returned
    supervisor,     \* the EraSupervisor: its active eras and its current era
    sv_pending,     \* the events scheduled and not yet delivered
    sv_op,          \* the last event the supervisor handled
    sv_out,         \* what handling it came to: effects, abort, the era created
    proposer,       \* the BlockProposer: its state and what the state holds
    bp_op,          \* the last event the block proposer was handed
    bp_out,         \* what handling it came to: effects, heights handled, abort
    bp_hist,        \* the finalized heights announced and handled so far
    scheduler,      \* a WeightedRoundRobin: iteration state, queues, permits, locks
    tasks,          \* the tasks that push to it and pop from it: where each one is
    rr_hist,        \* what the pops returned so far, and how they went
    small_network,  \* the SmallNetwork: pending, incoming, outgoing, blocklist
    net_tasks,      \* the futures it started that have not ended: how many of each
    net_op,         \* the last event it handled, and how that ended
    pb_call,        \* a call of propose_proto_block: the deploy sets and the arguments
    pb_block        \* the ProtoBlock it returned

eraVars == <<candidates, newly_slashed, slashed, accusations, faulty, op, ret, hist, accused>>

idVars ==
    <<era_id, overflow_checks, id_pc, id_x, id_successor, id_result,
      id_bytes, id_length, id_stream, id_decoded, id_iter>>

meterVars == <<meter, now, m_op, m_ret>>

\* The variables the specifications of Era leave alone.
svVars == <<supervisor, sv_pending, sv_op, sv_out>>

\* The variables of the components modelled after the meter.
bpVars == <<proposer, bp_op, bp_out, bp_hist>>

rrVars == <<scheduler, tasks, rr_hist>>

netVars == <<small_network, net_tasks, net_op>>

pbVars == <<pb_call, pb_block>>

laterVars == <<svVars, bpVars, rrVars, netVars, pbVars>>

outsideEra == <<idVars, meterVars, laterVars>>

bytesVars == <<id_bytes, id_length, id_stream, id_decoded>>

iterVars == <<id_iter>>

\* The variables the specification of EraId leaves alone.
outsideEraId == <<eraVars, script, meterVars, laterVars>>

\* The variables the specifications of RoundSuccessMeter leave alone.
outsideMeter == <<eraVars, script, idVars, laterVars>>

\* The variables the specification of the supervisor leaves alone.
outsideSupervisor == <<eraVars, script, idVars, meterVars, bpVars, rrVars, netVars, pbVars>>

\* The variables the specification of the block proposer leaves alone.
outsideProposer == <<eraVars, script, idVars, meterVars, svVars, rrVars, netVars, pbVars>>

\* The variables the specifications of the scheduler leave alone.
outsideScheduler == <<eraVars, script, idVars, meterVars, svVars, bpVars, netVars, pbVars>>

\* The variables the specification of the small network leaves alone.
outsideNetwork == <<eraVars, script, idVars, meterVars, svVars, bpVars, rrVars, pbVars>>

\* The variables the specification of propose_proto_block leaves alone.
outsideProposal == <<eraVars, script, idVars, meterVars, svVars, bpVars, rrVars, netVars>>

vars == <<eraVars, script, idVars, meterVars, laterVars>>

(***************************************************************************)
(* u64, as the digits of the number in base 2^16, the least significant    *)
(* first: every value of the 64 bits is represented, and each digit stays  *)
(* within the integers of the model checker.                               *)
(***************************************************************************)
\* The width of EraId(u64).
U64Bits == 64

LimbBase == 2 ^ 16

NumLimbs == U64Bits \div 16

U64(n) == [i \in 1 .. NumLimbs |-> IF i = 1 THEN n ELSE 0]

U64_MAX == [i \in 1 .. NumLimbs |-> LimbBase - 1]

\* The carry out of digit i of a + b.
RECURSIVE Carry(_, _, _)
Carry(a, b, i) == IF i = 0 THEN 0 ELSE (a[i] + b[i] + Carry(a, b, i - 1)) \div LimbBase

\* The borrow out of digit i of a - b.
RECURSIVE Borrow(_, _, _)
Borrow(a, b, i) ==
    IF i = 0 THEN 0
    ELSE IF a[i] - b[i] - Borrow(a, b, i - 1) < 0 THEN 1 ELSE 0

wrapping_add(a, b) ==
    [i \in 1 .. NumLimbs |-> (a[i] + b[i] + Carry(a, b, i - 1)) % LimbBase]

wrapping_sub(a, b) ==
    [i \in 1 .. NumLimbs |-> (LimbBase + a[i] - b[i] - Borrow(a, b, i - 1)) % LimbBase]

Panic == [panic |-> TRUE, value |-> U64(0)]

Value(v) == [panic |-> FALSE, value |-> v]

None == [some |-> FALSE, value |-> U64(0)]

Some(v) == [some |-> TRUE, value |-> v]

\* a + b on u64: an overflow panics in a build with overflow checks and wraps in one
\* without.
u64_add(a, b, checks) ==
    IF Carry(a, b, NumLimbs) = 1 /\ checks THEN Panic ELSE Value(wrapping_add(a, b))

\* u64::checked_sub
u64_checked_sub(a, b) ==
    IF Borrow(a, b, NumLimbs) = 1 THEN None ELSE Some(wrapping_sub(a, b))

(***************************************************************************)
(* EraId                                                                   *)
(***************************************************************************)
successor(e, checks) == u64_add(e, U64(1), checks)

checked_sub(e, x) == u64_checked_sub(e, x)

\* a < b on u64
u64_lt(a, b) == Borrow(a, b, NumLimbs) = 1

\* A subtraction that wraps below zero.
u64_saturating_sub_wrapping(a, b) == wrapping_sub(a, b)

\* u64::saturating_sub
u64_saturating_sub(a, b) == IF Borrow(a, b, NumLimbs) = 1 THEN U64(0) ELSE wrapping_sub(a, b)

\* (start..end), run to its end
RECURSIVE range(_, _)
range(start, end) ==
    IF u64_lt(start, end) THEN <<start>> \o range(wrapping_add(start, U64(1)), end)
    ELSE <<>>

\* (start..=end), run to its end: the last value is yielded without a step beyond it.
RECURSIVE range_inclusive(_, _)
range_inclusive(start, end) ==
    IF u64_lt(end, start) THEN <<>>
    ELSE IF start = end THEN <<start>>
    ELSE <<start>> \o range_inclusive(wrapping_add(start, U64(1)), end)

iter_bonded(e, bonded_eras) == range_inclusive(u64_saturating_sub(e, bonded_eras), e)

iter_other(e, count) == range(u64_saturating_sub(e, count), e)

MaxWindow == 3

\* The widths tried: the small ones and the largest.
Windows == {U64(n) : n \in 0 .. MaxWindow} \cup {U64_MAX}

\* Of an era and a width, one is small, so that the window can be run through.
Near(n) == u64_lt(n, U64(MaxWindow + 1))

NoEras == [bonded |-> <<>>, other |-> <<>>]

\* The EraIds tried: every digit at and next to its two ends.
EraIds == [1 .. NumLimbs -> {0, 1, LimbBase - 2, LimbBase - 1}]

SubArguments == {U64(0), U64(1), U64(2)}

(***************************************************************************)
(* The byte representation of EraId.  bytesrepr writes a u64 as its eight  *)
(* bytes, the least significant first, and reads it back from the first    *)
(* eight bytes of a stream, handing the rest of the stream back.           *)
(***************************************************************************)
ByteBase == 2 ^ 8

U64_SERIALIZED_LENGTH == U64Bits \div 8

Err == [ok |-> FALSE, value |-> U64(0), remainder |-> <<>>]

Ok(v, remainder) == [ok |-> TRUE, value |-> v, remainder |-> remainder]

\* Byte i of the u64 n: the low or the high half of one of its digits.
u64_byte(n, i) ==
    IF i % 2 = 1 THEN n[(i + 1) \div 2] % ByteBase ELSE n[i \div 2] \div ByteBase

u64_to_bytes(n) == [i \in 1 .. U64_SERIALIZED_LENGTH |-> u64_byte(n, i)]

u64_serialized_length == U64_SERIALIZED_LENGTH

u64_from_bytes(bytes) ==
    IF Len(bytes) < U64_SERIALIZED_LENGTH THEN Err
    ELSE Ok([i \in 1 .. NumLimbs |-> bytes[2 * i - 1] + ByteBase * bytes[2 * i]],
            SubSeq(bytes, U64_SERIALIZED_LENGTH + 1, Len(bytes)))

to_bytes(e) == u64_to_bytes(e)

serialized_length(e) == u64_serialized_length

\* A decoder that hands back the whole stream as the remainder.
from_bytes_keeping_stream(bytes) ==
    LET r == u64_from_bytes(bytes)
    IN  IF r.ok THEN Ok(r.value, bytes) ELSE Err

from_bytes(bytes) ==
    LET r == u64_from_bytes(bytes)
    IN  IF r.ok THEN Ok(r.value, r.remainder) ELSE Err

\* The streams decoded: an encoding, an encoding followed by another byte, and an
\* encoding cut short.
Streams(bytes) == {bytes, bytes \o <<1>>, SubSeq(bytes, 1, Len(bytes) - 1)}

(***************************************************************************)
(* RoundSuccessMeter                                                       *)
(* (node/src/components/consensus/protocols/highway/round_success_meter.rs)*)
(*                                                                         *)
(* A meter is the record of its fields.  rounds is the VecDeque<bool> with *)
(* index 1 the last handled round; TRUE is a successful round.  Timestamps *)
(* are milliseconds and round exponents are u8; the ones tried are far     *)
(* below the ends of u64 and u8.                                           *)
(***************************************************************************)
NUM_ROUNDS_TO_CONSIDER == 40

MAX_FAILED_ROUNDS == 10

ACCELERATION_PARAMETER == 40

MAX_FAILURES_FOR_ACCELERATION == 3

\* Largest round exponent tried.
MaxExp == 1

\* The clock stops here.
MaxTime == 82

\* Most proposals registered within one round.
MaxProposals == 1

Exps == 0 .. MaxExp

\* Proposal hashes.
Hashes == {"h1", "h2"}

\* x >> n and x << n
shr(x, n) == x \div (2 ^ n)

shl(x, n) == x * (2 ^ n)

\* The start of the round of length 2^round_exp that timestamp lies in.
round_id(timestamp, round_exp) == shl(shr(timestamp, round_exp), round_exp)

RoundSuccessMeter_new(round_exp, min_round_exp, max_round_exp, timestamp) ==
    [rounds |-> <<>>,
     current_round_id |-> round_id(timestamp, round_exp),
     proposals |-> <<>>,
     min_round_exp |-> min_round_exp,
     max_round_exp |-> max_round_exp,
     current_round_exp |-> round_exp]

\* A change of exponent that keeps the history.
change_exponent_keeping_rounds(m, new_exp, timestamp) ==
    [m EXCEPT !.current_round_exp = new_exp,
              !.current_round_id = round_id(timestamp, new_exp),
              !.proposals = <<>>]

change_exponent(m, new_exp, timestamp) ==
    [m EXCEPT !.rounds = <<>>,
              !.current_round_exp = new_exp,
              !.current_round_id = round_id(timestamp, new_exp),
              !.proposals = <<>>]

\* A detector that finds a summit for every proposal.
check_proposals_success_always(state, proposal_h) == TRUE

\* state is the protocol state, as the set of proposals it holds a level-1 summit for.
check_proposals_success(state, proposal_h) == proposal_h \in state

\* A meter that takes a proposal of any round.
new_proposal_of_any_round(m, proposal_h, timestamp) ==
    [m EXCEPT !.proposals = Append(@, proposal_h)]

new_proposal(m, proposal_h, timestamp) ==
    IF round_id(timestamp, m.current_round_exp) = m.current_round_id
    THEN [m EXCEPT !.proposals = Append(@, proposal_h)]
    ELSE m

push_front(rounds, success) == <<success>> \o rounds

pop_back(rounds) == SubSeq(rounds, 1, Len(rounds) - 1)

\* A trimming that drops the newest rounds.
RECURSIVE clean_old_rounds_at_front(_)
clean_old_rounds_at_front(rounds) ==
    IF Len(rounds) > NUM_ROUNDS_TO_CONSIDER
    THEN clean_old_rounds_at_front(Tail(rounds))
    ELSE rounds

RECURSIVE clean_old_rounds(_)
clean_old_rounds(rounds) ==
    IF Len(rounds) > NUM_ROUNDS_TO_CONSIDER
    THEN clean_old_rounds(pop_back(rounds))
    ELSE rounds

count_failures(m) == Len(SelectSeq(m.rounds, LAMBDA success : ~success))

\* Slowing down at the threshold already.
slow_down_at_threshold(m) ==
    /\ count_failures(m) >= MAX_FAILED_ROUNDS
    /\ m.current_round_exp < m.max_round_exp

\* Slowing down past the largest exponent.
slow_down_unclamped(m) == count_failures(m) > MAX_FAILED_ROUNDS

\* The first condition of new_exponent.
slow_down(m) ==
    /\ count_failures(m) > MAX_FAILED_ROUNDS
    /\ m.current_round_exp < m.max_round_exp

\* Accelerating without a full history.
accelerate_any_length(m) ==
    /\ shr(m.current_round_id, m.current_round_exp) % ACCELERATION_PARAMETER = 0
    /\ m.current_round_exp > m.min_round_exp
    /\ count_failures(m) < MAX_FAILURES_FOR_ACCELERATION

\* Accelerating in every round.
accelerate_every_round(m) ==
    /\ m.current_round_exp > m.min_round_exp
    /\ Len(m.rounds) = NUM_ROUNDS_TO_CONSIDER
    /\ count_failures(m) < MAX_FAILURES_FOR_ACCELERATION

\* The second condition of new_exponent.
accelerate(m) ==
    /\ shr(m.current_round_id, m.current_round_exp) % ACCELERATION_PARAMETER = 0
    /\ m.current_round_exp > m.min_round_exp
    /\ Len(m.rounds) = NUM_ROUNDS_TO_CONSIDER
    /\ count_failures(m) < MAX_FAILURES_FOR_ACCELERATION

new_exponent(m) ==
    IF slow_down(m) THEN m.current_round_exp + 1
    ELSE IF accelerate(m) THEN m.current_round_exp - 1
    ELSE m.current_round_exp

\* rounds after n more failed rounds; nothing is pushed for n = 0.
RECURSIVE push_failed(_, _)
push_failed(rounds, n) ==
    IF n <= 0 THEN rounds ELSE push_failed(push_front(rounds, FALSE), n - 1)

\* A meter that puts the outcome of the tracked round in front of the skipped rounds.
round_over_tracked_last(m, t, state) ==
    LET current_round_index == shr(m.current_round_id, m.current_round_exp)
        new_round_index == shr(t, m.current_round_exp)
        success ==
            \E i \in DOMAIN m.proposals : check_proposals_success(state, m.proposals[i])
        pushed ==
            push_front(push_failed(m.rounds, new_round_index - current_round_index - 1),
                       success)
    IN  [m EXCEPT !.proposals = <<>>,
                  !.rounds = clean_old_rounds(pushed),
                  !.current_round_id = shl(new_round_index, m.current_round_exp)]

\* The meter at the call of new_exponent in a call of calculate_new_exponent at time t
\* that finds the round over.
round_over(m, t, state) ==
    LET current_round_index == shr(m.current_round_id, m.current_round_exp)
        new_round_index == shr(t, m.current_round_exp)
        success ==
            \E i \in DOMAIN m.proposals : check_proposals_success(state, m.proposals[i])
        pushed ==
            push_failed(push_front(m.rounds, success),
                        new_round_index - current_round_index - 1)
    IN  [m EXCEPT !.proposals = <<>>,
                  !.rounds = clean_old_rounds(pushed),
                  !.current_round_id = shl(new_round_index, m.current_round_exp)]

\* A meter that takes every call for the end of a round.
calculate_new_exponent_in_any_call(m, t, state) ==
    LET over == round_over(m, t, state)
        new_exp == new_exponent(over)
    IN  [meter |-> IF new_exp # over.current_round_exp
                   THEN change_exponent(over, new_exp, t)
                   ELSE over,
         value |-> new_exp]

\* calculate_new_exponent with Timestamp::now() = t: the meter after the call and
\* the exponent returned.
calculate_new_exponent(m, t, state) ==
    IF round_id(t, m.current_round_exp) <= m.current_round_id
    THEN [meter |-> m, value |-> new_exponent(m)]
    ELSE LET over == round_over(m, t, state)
             new_exp == new_exponent(over)
         IN  [meter |-> IF new_exp # over.current_round_exp
                        THEN change_exponent(over, new_exp, t)
                        ELSE over,
              value |-> new_exp]

(***************************************************************************)
(* PendingCandidate                                                        *)
(***************************************************************************)
\* A CandidateBlock: its proto block, and an id standing for the rest of its content.
CandidateBlock(id, proto_block) == [id |-> id, proto_block |-> proto_block]

\* A pending candidate that counts as validated from the start.
PendingCandidate_new_validated(candidate, missing_evidence) ==
    [candidate |-> candidate, validated |-> TRUE, missing_evidence |-> missing_evidence]

PendingCandidate_new(candidate, missing_evidence) ==
    [candidate |-> candidate, validated |-> FALSE, missing_evidence |-> missing_evidence]

\* is_complete without the test of validated.
is_complete_unvalidated(pc) == pc.missing_evidence = <<>>

is_complete(pc) == pc.validated /\ pc.missing_evidence = <<>>

(***************************************************************************)
(* Vec helpers of the standard library, as the code uses them.             *)
(***************************************************************************)
Map(s, F(_)) == [i \in DOMAIN s |-> F(s[i])]

\* A retain that drops the first occurrence of pub_key alone.
retain_not_first_only(missing_evidence, pub_key) ==
    IF \E i \in DOMAIN missing_evidence : missing_evidence[i] = pub_key
    THEN LET first == CHOOSE i \in DOMAIN missing_evidence :
                          /\ missing_evidence[i] = pub_key
                          /\ \A j \in 1 .. (i - 1) : missing_evidence[j] # pub_key
         IN  SubSeq(missing_evidence, 1, first - 1)
                 \o SubSeq(missing_evidence, first + 1, Len(missing_evidence))
    ELSE missing_evidence

\* Vec::retain(|pk| pk != pub_key)
retain_not(missing_evidence, pub_key) ==
    SelectSeq(missing_evidence, LAMBDA pk : pk # pub_key)

\* drain(..).partition(pred): the elements satisfying pred and the others, each in order.
partition(s, Pred(_)) ==
    [yes |-> SelectSeq(s, Pred), no |-> SelectSeq(s, LAMBDA x : ~Pred(x))]

\* into_iter().map(|pc| pc.candidate).collect()
candidates_of(pcs) == Map(pcs, LAMBDA pc : pc.candidate)

(***************************************************************************)
(* Era: the pure part of each operation, on the candidates list.           *)
(***************************************************************************)
\* remove_complete_candidates that leaves the complete candidates in the list.
remove_complete_candidates_keeping(cands) ==
    [returned |-> candidates_of(partition(cands, is_complete).yes), candidates |-> cands]

\* remove_complete_candidates that hands back the pending candidates in reverse order.
remove_complete_candidates_reversed(cands) ==
    LET p == partition(cands, is_complete)
        n == Len(p.no)
    IN  [returned |-> candidates_of(p.yes), candidates |-> [i \in 1 .. n |-> p.no[n + 1 - i]]]

\* remove_complete_candidates: what is returned and what stays pending.
remove_complete_candidates(cands) ==
    LET p == partition(cands, is_complete)
    IN  [returned |-> candidates_of(p.yes), candidates |-> p.no]

\* The loop of resolve_evidence.
without_evidence(cands, pub_key) ==
    Map(cands, LAMBDA pc : [pc EXCEPT !.missing_evidence = retain_not(@, pub_key)])

\* The loop of accept_proto_block.
with_validated(cands, proto_block) ==
    Map(cands, LAMBDA pc : IF pc.candidate.proto_block = proto_block
                           THEN [pc EXCEPT !.validated = TRUE]
                           ELSE pc)

\* A partition of reject_proto_block that spares the validated candidates.
reject_partition_unvalidated(cands, proto_block) ==
    LET p == partition(cands, LAMBDA pc : pc.candidate.proto_block = proto_block
                                            /\ ~pc.validated)
    IN  [returned |-> candidates_of(p.yes), candidates |-> p.no]

\* A partition of reject_proto_block that leaves the rejected candidates in the list.
reject_partition_keeping(cands, proto_block) ==
    LET p == partition(cands, LAMBDA pc : pc.candidate.proto_block = proto_block)
    IN  [returned |-> candidates_of(p.yes), candidates |-> cands]

\* The partition of reject_proto_block.
reject_partition(cands, proto_block) ==
    LET p == partition(cands, LAMBDA pc : pc.candidate.proto_block = proto_block)
    IN  [returned |-> candidates_of(p.yes), candidates |-> p.no]

(***************************************************************************)
(* What the calls made since a candidate was added say about it.  This is  *)
(* a record of the calls and of their results, kept beside the era.  Until *)
(* an operation returns the candidate (open): its proto block, the         *)
(* validators named at add_candidate for which no resolve_evidence was     *)
(* called yet (awaiting) and whether accept_proto_block was called for its *)
(* proto block (accepted); accepted stays as it was when the candidate was *)
(* returned.                                                               *)
(* Throughout: how often resolve_evidence or accept_proto_block returned   *)
(* it (released) and how often reject_proto_block did (rejected), both     *)
(* counted up to 2.                                                        *)
(***************************************************************************)
NoHistory ==
    [proto_block |-> "none", awaiting |-> {}, accepted |-> FALSE,
     released |-> 0, rejected |-> 0, open |-> FALSE]

Occurrences(returned, id) == Cardinality({i \in DOMAIN returned : returned[i].id = id})

Min(a, b) == IF a < b THEN a ELSE b

Observed(h, name, pub_key, proto_block, returned) ==
    [id \in CandidateIds |->
        LET n == Occurrences(returned, id)
            e == h[id]
        IN  [proto_block |-> IF n > 0 THEN "none" ELSE e.proto_block,
             awaiting    |-> IF name = "reject_proto_block" /\ n > 0 THEN {}
                             ELSE IF e.open /\ name = "resolve_evidence"
                             THEN e.awaiting \ {pub_key}
                             ELSE e.awaiting,
             accepted    |-> \/ e.accepted
                             \/ e.open /\ name = "accept_proto_block"
                                       /\ e.proto_block = proto_block,
             released    |-> IF name = "reject_proto_block"
                             THEN e.released
                             ELSE Min(2, e.released + n),
             rejected    |-> IF name = "reject_proto_block"
                             THEN Min(2, e.rejected + n)
                             ELSE e.rejected,
             open        |-> e.open /\ n = 0]]

Call(name, pub_key, proto_block) ==
    [name |-> name, pub_key |-> pub_key, proto_block |-> proto_block]

IsPending(id) == \E i \in DOMAIN candidates : candidates[i].candidate.id = id

(***************************************************************************)
(* Era::new.  It stores the arguments as given.  The arguments the era     *)
(* supervisor passes follow the data model of the specification and the    *)
(* comment on Era::slashed: slashed includes newly_slashed.                *)
(***************************************************************************)
NewEraArguments ==
    {a \in [newly_slashed : SeqsUpTo(Validators, 1), slashed : SUBSET Validators] :
        Range(a.newly_slashed) \subseteq a.slashed}

\* An Era::new that starts slashed empty, as it starts accusations.
Era_new_without_slashed(a) ==
    /\ candidates = <<>>
    /\ newly_slashed = a.newly_slashed
    /\ slashed = {}
    /\ accusations = {}
    /\ faulty = {}
    /\ op = Call("new", 0, "none")
    /\ ret = <<>>
    /\ hist = [id \in CandidateIds |-> NoHistory]
    /\ accused = {}

Era_new(a) ==
    /\ candidates = <<>>
    /\ newly_slashed = a.newly_slashed
    /\ slashed = a.slashed
    /\ accusations = {}
    /\ faulty = {}
    /\ op = Call("new", 0, "none")
    /\ ret = <<>>
    /\ hist = [id \in CandidateIds |-> NoHistory]
    /\ accused = {}

(***************************************************************************)
(* Era: operations on the pending candidates.                              *)
(***************************************************************************)
\* add_candidate.  The protocol instance adds a block once (specification, 4.2): a
\* candidate that is pending is not added again.
add_candidate(id, proto_block, missing_evidence) ==
    /\ ~IsPending(id)
    /\ candidates' = Append(candidates,
                            PendingCandidate_new(CandidateBlock(id, proto_block),
                                                 missing_evidence))
    /\ op' = Call("add_candidate", 0, "none")
    /\ ret' = <<>>
    /\ hist' = [hist EXCEPT ![id] =
                    [proto_block |-> proto_block,
                     awaiting |-> Range(missing_evidence), accepted |-> FALSE,
                     released |-> 0, rejected |-> 0, open |-> TRUE]]
    /\ UNCHANGED <<newly_slashed, slashed, accusations, faulty, accused>>

resolve_evidence(pub_key) ==
    LET r == remove_complete_candidates(without_evidence(candidates, pub_key))
    IN  /\ candidates' = r.candidates
        /\ faulty' = faulty \cup {pub_key}
        /\ ret' = r.returned
        /\ op' = Call("resolve_evidence", pub_key, "none")
        /\ hist' = Observed(hist, "resolve_evidence", pub_key, "none", r.returned)
        /\ UNCHANGED <<newly_slashed, slashed, accusations, accused>>

accept_proto_block(proto_block) ==
    LET r == remove_complete_candidates(with_validated(candidates, proto_block))
    IN  /\ candidates' = r.candidates
        /\ ret' = r.returned
        /\ op' = Call("accept_proto_block", 0, proto_block)
        /\ hist' = Observed(hist, "accept_proto_block", 0, proto_block, r.returned)
        /\ UNCHANGED <<newly_slashed, slashed, accusations, faulty, accused>>

reject_proto_block(proto_block) ==
    LET r == reject_partition(candidates, proto_block)
    IN  /\ candidates' = r.candidates
        /\ ret' = r.returned
        /\ op' = Call("reject_proto_block", 0, proto_block)
        /\ hist' = Observed(hist, "reject_proto_block", 0, proto_block, r.returned)
        /\ UNCHANGED <<newly_slashed, slashed, accusations, faulty, accused>>

resolve_validity(proto_block, valid) ==
    IF valid THEN accept_proto_block(proto_block) ELSE reject_proto_block(proto_block)

(***************************************************************************)
(* Era: accusations.                                                       *)
(***************************************************************************)
\* The loop of add_accusations, with the check against slashed left out.
RECURSIVE with_accusations_unchecked(_, _, _)
with_accusations_unchecked(set, slashed_set, list) ==
    IF list = <<>> THEN set
    ELSE with_accusations_unchecked(set \cup {Head(list)}, slashed_set, Tail(list))

\* The loop of add_accusations.
RECURSIVE with_accusations(_, _, _)
with_accusations(set, slashed_set, list) ==
    IF list = <<>> THEN set
    ELSE with_accusations(IF Head(list) \notin slashed_set
                          THEN set \cup {Head(list)}
                          ELSE set,
                          slashed_set, Tail(list))

add_accusations(list) ==
    /\ accusations' = with_accusations(accusations, slashed, list)
    /\ accused' = accused \cup Range(list)
    /\ op' = Call("add_accusations", 0, "none")
    /\ ret' = <<>>
    /\ UNCHANGED <<candidates, newly_slashed, slashed, faulty, hist>>

\* The orders in which a HashSet may hand out its elements.
IterationOrders(set) == {o \in [1 .. Cardinality(set) -> set] : Range(o) = set}

\* Itertools::sorted: ascending in the order of Ord.
RECURSIVE InsertSorted(_, _)
InsertSorted(x, s) ==
    IF s = <<>> THEN <<x>>
    ELSE IF x < Head(s) THEN <<x>> \o s
    ELSE <<Head(s)>> \o InsertSorted(x, Tail(s))

\* The iteration order as it is, without sorted().
not_sorted(s) == s

RECURSIVE sorted(_)
sorted(s) == IF s = <<>> THEN <<>> ELSE InsertSorted(Head(s), sorted(Tail(s)))

Era_accusations ==
    \E order \in IterationOrders(accusations) :
        /\ ret' = sorted(order)
        /\ op' = Call("accusations", 0, "none")
        /\ UNCHANGED <<candidates, newly_slashed, slashed, accusations, faulty, hist,
                       accused>>

(***************************************************************************)
(* EraSupervisor (node/src/components/consensus.rs).  handle_event is      *)
(* modelled from its code; the handlers it dispatches to are those of      *)
(* section 4.1 of the specification of the component.  An era of the       *)
(* supervisor is the number of its validators with evidence and its        *)
(* validator weights; an event is a record, and the effects of a handler   *)
(* are the events it schedules.                                            *)
(***************************************************************************)
\* Most validators with evidence in one era.
MaxFaulty == 2

\* The bonded keys the validator-weights query returns; kx has no counterpart among
\* the keys of the node.
BondedKeys == {"k1", "k2", "kx"}

Stakes == {1, 2}

Delays == {1}

\* key.try_into(), from a bonded key to a key of the node.
try_into(key) ==
    IF key = "k1" THEN [ok |-> TRUE, key |-> 1]
    ELSE IF key = "k2" THEN [ok |-> TRUE, key |-> 2]
    ELSE [ok |-> FALSE, key |-> 0]

NoWeights == [key \in {} |-> 0]

ValidatorWeights == UNION {[keys -> Stakes] : keys \in (SUBSET BondedKeys) \ {{}}}

\* Result<Option<ValidatorWeights>, GetEraValidatorsError>
GetValidatorsResults ==
    {[kind |-> "Err", weights |-> NoWeights], [kind |-> "None", weights |-> NoWeights]}
        \cup {[kind |-> "Some", weights |-> w] : w \in ValidatorWeights}

\* Result<BlockHash, u64> and Result<Digest, u64>
Lookups == {"Ok", "Err"}

Timer(era) ==
    [name |-> "Timer", era_id |-> era, faulty_num |-> 0, delay |-> 0, disturbed |-> FALSE]

\* disturbed tells, of an event not yet delivered, whether evidence has come in for
\* its era since it was scheduled.
DeactivateEra(era, faulty_num, delay) ==
    [name |-> "DeactivateEra", era_id |-> era, faulty_num |-> faulty_num,
     delay |-> delay, disturbed |-> FALSE]

NoEra == [created |-> FALSE, era_id |-> U64(0), validators |-> NoWeights]

Handled(es, effects) == [es |-> es, effects |-> effects, panic |-> FALSE, era |-> NoEra]

Aborted(es) == [es |-> es, effects |-> {}, panic |-> TRUE, era |-> NoEra]

\* A supervisor whose timers go on for an era it does not know any more.
handle_timer_of_any_era(es, era) == Handled(es, {Timer(era)})

handle_timer(es, era) ==
    IF era \in DOMAIN es.active_eras THEN Handled(es, {Timer(era)}) ELSE Handled(es, {})

\* A message that brings evidence against one more validator of the era.
handle_message(es, era) ==
    IF era \in DOMAIN es.active_eras
    THEN Handled([es EXCEPT !.active_eras[era].faulty = @ + 1], {})
    ELSE Handled(es, {})

\* A supervisor that deactivates the era whatever its number of faulty validators.
handle_deactivate_era_at_once(es, era, faulty_num, delay) ==
    IF era \notin DOMAIN es.active_eras THEN Handled(es, {})
    ELSE Handled([es EXCEPT !.active_eras =
                     [e \in DOMAIN es.active_eras \ {era} |-> es.active_eras[e]]], {})

handle_deactivate_era(es, era, faulty_num, delay) ==
    IF era \notin DOMAIN es.active_eras THEN Handled(es, {})
    ELSE IF es.active_eras[era].faulty = faulty_num
    THEN Handled([es EXCEPT !.active_eras =
                     [e \in DOMAIN es.active_eras \ {era} |-> es.active_eras[e]]], {})
    ELSE Handled(es, {DeactivateEra(era, es.active_eras[era].faulty, delay)})

handle_create_new_era(es, block_header, booking_block_hash, key_block_seed, validators) ==
    LET new_era == successor(block_header, TRUE).value
    IN  [es |-> [active_eras |->
                     [e \in DOMAIN es.active_eras \cup {new_era} |->
                         IF e = new_era
                         THEN [faulty |-> 0, validators |-> validators]
                         ELSE es.active_eras[e]],
                 current_era |-> new_era],
         effects |-> {Timer(new_era)},
         panic |-> FALSE,
         era |-> [created |-> TRUE, era_id |-> new_era, validators |-> validators]]

\* The validators handed to handle_create_new_era: those whose key converts.
collect_validators(validator_weights) ==
    LET converted == {key \in DOMAIN validator_weights : try_into(key).ok}
    IN  [v \in {try_into(key).key : key \in converted} |->
            validator_weights[CHOOSE key \in converted : try_into(key).key = v]]

\* A supervisor that takes no validator weights for no validators.
create_new_era_without_weights(es, block_header, booking_block_hash, key_block_seed, get_validators_result) ==
    IF booking_block_hash # "Ok" THEN Aborted(es)
    ELSE IF key_block_seed # "Ok" THEN Aborted(es)
    ELSE IF get_validators_result.kind = "Err" THEN Aborted(es)
    ELSE handle_create_new_era(es, block_header, booking_block_hash, key_block_seed,
                               collect_validators(get_validators_result.weights))

\* handle_event for Event::CreateNewEra
create_new_era(es, block_header, booking_block_hash, key_block_seed, get_validators_result) ==
    IF booking_block_hash # "Ok" THEN Aborted(es)
    ELSE IF key_block_seed # "Ok" THEN Aborted(es)
    ELSE IF get_validators_result.kind # "Some" THEN Aborted(es)
    ELSE handle_create_new_era(es, block_header, booking_block_hash, key_block_seed,
                               collect_validators(get_validators_result.weights))

(***************************************************************************)
(* BlockProposer.  Heights are BlockHeight values far below u64::MAX.  An  *)
(* event is a record with every field present; a HashMap is a function on *)
(* its keys.                                                               *)
(***************************************************************************)
MaxHeight == 2

MaxBuffered == 2

MaxRequests == 1

Heights == 0 .. MaxHeight

DeployHashes == {"d1"}

\* The deploys and transfers of a finalized block.
BlockContents == {<<>>, <<"d1">>}

HashMap_new == [key \in {} |-> 0]

insert(map, key, value) ==
    [k \in DOMAIN map \cup {key} |-> IF k = key THEN value ELSE map[k]]

remove(map, key) == [k \in DOMAIN map \ {key} |-> map[k]]

NoProposerEvent ==
    [name |-> "none", height |-> 0, deploys |-> <<>>, next_finalized |-> 0,
     next_finalized_block |-> 0, hash |-> "none", expired |-> FALSE, pruned |-> {}]

Loaded(next_finalized_block) ==
    [NoProposerEvent EXCEPT !.name = "Loaded",
                            !.next_finalized_block = next_finalized_block]

FinalizedProtoBlock(deploys, height) ==
    [NoProposerEvent EXCEPT !.name = "FinalizedProtoBlock", !.deploys = deploys,
                            !.height = height]

RequestProtoBlock(next_finalized) ==
    [NoProposerEvent EXCEPT !.name = "RequestProtoBlock",
                            !.next_finalized = next_finalized]

\* expired: what deploy_or_transfer.header().expired(Timestamp::now()) comes to.
BufferDeploy(hash, expired) ==
    [NoProposerEvent EXCEPT !.name = "BufferDeploy", !.hash = hash, !.expired = expired]

\* pruned: the hashes that sets.prune(Timestamp::now()) finds expired.
Prune(pruned) == [NoProposerEvent EXCEPT !.name = "Prune", !.pruned = pruned]

Respond(request) ==
    [NoProposerEvent EXCEPT !.name = "respond", !.next_finalized = request.next_finalized]

SaveState == [NoProposerEvent EXCEPT !.name = "save_state"]

SetTimeout == [NoProposerEvent EXCEPT !.name = "set_timeout"]

BlockProposerDeploySets_default ==
    [pending |-> {}, finalized_deploys |-> {}, next_finalized |-> 0,
     finalization_queue |-> HashMap_new]

with_next_finalized(sets, next_finalized) ==
    [sets EXCEPT !.next_finalized = next_finalized]

BlockProposerReady_new(sets) ==
    [sets |-> sets, unhandled_finalized |-> {}, request_queue |-> HashMap_new]

BlockProposer_new ==
    [state |-> "Initializing", pending |-> <<>>,
     ready |-> BlockProposerReady_new(BlockProposerDeploySets_default)]

\* What handling an event in the ready state comes to: the state, the effects, the
\* heights handed to handle_finalized_block, and whether the handler aborted.
Did(ready, effects, handled) ==
    [ready |-> ready, effects |-> effects, handled |-> handled, aborted |-> FALSE]

add_deploy_or_transfer(ready, hash, expired) ==
    IF expired THEN ready
    ELSE IF hash \in ready.unhandled_finalized
    THEN [ready EXCEPT !.unhandled_finalized = @ \ {hash},
                       !.sets.finalized_deploys = @ \cup {hash}]
    ELSE IF hash \in ready.sets.finalized_deploys THEN ready
    ELSE [ready EXCEPT !.sets.pending = @ \cup {hash}]

RECURSIVE finalized_deploys(_, _)
finalized_deploys(ready, deploys) ==
    IF deploys = <<>> THEN ready
    ELSE LET deploy_hash == Head(deploys)
         IN  finalized_deploys(
                 IF deploy_hash \in ready.sets.pending
                 THEN [ready EXCEPT !.sets.pending = @ \ {deploy_hash},
                                    !.sets.finalized_deploys = @ \cup {deploy_hash}]
                 ELSE [ready EXCEPT !.unhandled_finalized = @ \cup {deploy_hash}],
                 Tail(deploys))

\* A handle_finalized_block that answers the queued requests and keeps them queued.
handle_finalized_block_keeping_requests(ready, height, deploys) ==
    LET marked == [finalized_deploys(ready, deploys) EXCEPT
                       !.sets.next_finalized = height + 1]
    IN  IF marked.sets.next_finalized \in DOMAIN marked.request_queue
        THEN Did(marked,
                 [i \in DOMAIN marked.request_queue[marked.sets.next_finalized] |->
                     Respond(marked.request_queue[marked.sets.next_finalized][i])],
                 <<height>>)
        ELSE Did(marked, <<>>, <<height>>)

handle_finalized_block(ready, height, deploys) ==
    LET marked == [finalized_deploys(ready, deploys) EXCEPT
                       !.sets.next_finalized = height + 1]
    IN  IF marked.sets.next_finalized \in DOMAIN marked.request_queue
        THEN Did([marked EXCEPT !.request_queue =
                                    remove(@, marked.sets.next_finalized)],
                 [i \in DOMAIN marked.request_queue[marked.sets.next_finalized] |->
                     Respond(marked.request_queue[marked.sets.next_finalized][i])],
                 <<height>>)
        ELSE Did(marked, <<>>, <<height>>)

\* The while loop of Event::FinalizedProtoBlock, after did.
RECURSIVE replay_finalization_queue(_, _)
replay_finalization_queue(did, height) ==
    IF height \in DOMAIN did.ready.sets.finalization_queue
    THEN LET deploys == did.ready.sets.finalization_queue[height]
             removed == [did.ready EXCEPT !.sets.finalization_queue = remove(@, height)]
             next == handle_finalized_block(removed, height + 1, deploys)
         IN  replay_finalization_queue(
                 Did(next.ready, did.effects \o next.effects,
                     did.handled \o next.handled),
                 height + 1)
    ELSE did

\* A handler that queues a block under the height of the block after it.
finalized_proto_block_queued_late(ready, deploys, height) ==
    IF height > ready.sets.next_finalized
    THEN Did([ready EXCEPT !.sets.finalization_queue = insert(@, height, deploys)],
             <<>>, <<>>)
    ELSE replay_finalization_queue(handle_finalized_block(ready, height, deploys), height)

\* BlockProposerReady::handle_event for Event::FinalizedProtoBlock
finalized_proto_block(ready, deploys, height) ==
    IF height > ready.sets.next_finalized
    THEN Did([ready EXCEPT !.sets.finalization_queue = insert(@, height - 1, deploys)],
             <<>>, <<>>)
    ELSE replay_finalization_queue(handle_finalized_block(ready, height, deploys), height)

\* BlockProposerReady::handle_event for Event::Request(RequestProtoBlock(request))
request_proto_block(ready, request) ==
    IF request.next_finalized > ready.sets.next_finalized
    THEN Did([ready EXCEPT !.request_queue =
                 insert(@, request.next_finalized,
                        IF request.next_finalized \in DOMAIN @
                        THEN Append(@[request.next_finalized], request)
                        ELSE <<request>>)],
             <<>>, <<>>)
    ELSE Did(ready, <<Respond(request)>>, <<>>)

\* Event::Prune: sets.prune drops the expired hashes.
prune(ready, pruned) ==
    Did([ready EXCEPT !.sets.pending = @ \ pruned,
                      !.sets.finalized_deploys = @ \ pruned],
        <<SaveState, SetTimeout>>, <<>>)

BlockProposerReady_handle_event(ready, event) ==
    IF event.name = "RequestProtoBlock" THEN request_proto_block(ready, event)
    ELSE IF event.name = "BufferDeploy"
    THEN Did(add_deploy_or_transfer(ready, event.hash, event.expired), <<>>, <<>>)
    ELSE IF event.name = "Prune" THEN prune(ready, event.pruned)
    ELSE IF event.name = "Loaded" THEN Did(ready, <<>>, <<>>)
    ELSE finalized_proto_block(ready, event.deploys, event.height)

\* A replay of the buffered events that begins with the newest.
RECURSIVE replay_pending_newest_first(_, _)
replay_pending_newest_first(did, pending) ==
    IF pending = <<>> THEN did
    ELSE LET next == BlockProposerReady_handle_event(did.ready, pending[Len(pending)])
         IN  replay_pending_newest_first(
                 Did(next.ready, did.effects \o next.effects,
                     did.handled \o next.handled),
                 SubSeq(pending, 1, Len(pending) - 1))

\* for ev in pending.drain(..)
RECURSIVE replay_pending(_, _)
replay_pending(did, pending) ==
    IF pending = <<>> THEN did
    ELSE LET next == BlockProposerReady_handle_event(did.ready, Head(pending))
         IN  replay_pending(Did(next.ready, did.effects \o next.effects,
                                did.handled \o next.handled),
                            Tail(pending))

\* What BlockProposer::handle_event comes to: the proposer, and the rest as in Did.
BlockProposer_handle_event(bp, event) ==
    IF bp.state = "Initializing" /\ event.name = "Loaded"
    THEN LET new_ready_state ==
                 BlockProposerReady_new(
                     with_next_finalized(BlockProposerDeploySets_default,
                                         event.next_finalized_block))
             did == replay_pending(Did(new_ready_state, <<>>, <<>>), bp.pending)
         IN  [bp |-> [state |-> "Ready", pending |-> <<>>, ready |-> did.ready],
              effects |-> did.effects \o <<SetTimeout>>,
              handled |-> did.handled, aborted |-> did.aborted]
    ELSE IF bp.state = "Initializing"
    THEN [bp |-> [bp EXCEPT !.pending = Append(@, event)],
          effects |-> <<>>, handled |-> <<>>, aborted |-> FALSE]
    ELSE LET did == BlockProposerReady_handle_event(bp.ready, event)
         IN  [bp |-> [bp EXCEPT !.ready = did.ready],
              effects |-> did.effects, handled |-> did.handled,
              aborted |-> did.aborted]

(***************************************************************************)
(* WeightedRoundRobin.  A Mutex is the task that holds it, or "none"; the  *)
(* Semaphore is its number of permits; an AtomicUsize is a u64.            *)
(***************************************************************************)
\* tests::weights()
weights == <<[key |-> "One", tickets |-> 1], [key |-> "Two", tickets |-> 2]>>

QueueState_new == [event_count |-> U64(0), queue |-> <<>>, lock |-> "none"]

WeightedRoundRobin_new(w) ==
    [state |-> [active_slot |-> w[1], active_slot_idx |-> 0],
     state_lock |-> "none",
     slots |-> w,
     queues |-> [key \in {w[i].key : i \in DOMAIN w} |-> QueueState_new],
     total |-> 0]

fetch_add(event_count) == wrapping_add(event_count, U64(1))

\* dec_count
fetch_sub(event_count) == wrapping_sub(event_count, U64(1))

\* A Semaphore that hands out one permit more than it is given.
add_permits_one_more(total, n) == total + n + 1

add_permits(total, n) == total + n

\* A scheduler that loads the next slot with the tickets the last one had left.
next_slot_keeping_tickets(rr) ==
    LET idx == (rr.state.active_slot_idx + 1) % Len(rr.slots)
    IN  [active_slot |-> [key |-> rr.slots[idx + 1].key,
                          tickets |-> rr.state.active_slot.tickets],
         active_slot_idx |-> idx]

\* A scheduler that loads the next slot with one ticket more than its weight.
next_slot_one_more_ticket(rr) ==
    LET idx == (rr.state.active_slot_idx + 1) % Len(rr.slots)
    IN  [active_slot |-> [key |-> rr.slots[idx + 1].key,
                          tickets |-> rr.slots[idx + 1].tickets + 1],
         active_slot_idx |-> idx]

\* Go to next queue slot: the slots are a Vec, indexed from 0.
next_slot(rr) ==
    LET idx == (rr.state.active_slot_idx + 1) % Len(rr.slots)
    IN  [active_slot |-> rr.slots[idx + 1], active_slot_idx |-> idx]

(***************************************************************************)
(* propose_proto_block: the choice of pending deploys for a block.  The    *)
(* pending deploys are a HashMap, taken here in the order its iterator     *)
(* yields them.                                                            *)
(***************************************************************************)
DEPLOY_APPROX_MIN_SIZE == 300

MaxPending == 3

MaxCount == 1

\* The deploys that may be pending: for each hash its DeployType, with the gas that
\* Gas::from_motes makes of its payment amount.
DeployHeader(timestamp, ttl, dependencies) ==
    [timestamp |-> timestamp, ttl |-> ttl, dependencies |-> dependencies]

DeployType(is_transfer, gas, size, header) ==
    [is_transfer |-> is_transfer, payment_amount_gas |-> gas, size |-> size,
     header |-> header]

DeployTypes ==
    [t1 |-> DeployType(TRUE, 1, 100, DeployHeader(5, 10, <<>>)),
     t2 |-> DeployType(TRUE, 1, 100, DeployHeader(5, 10, <<>>)),
     t3 |-> DeployType(TRUE, 2, 100, DeployHeader(5, 10, <<"w1">>)),
     w1 |-> DeployType(FALSE, 2, 400, DeployHeader(5, 10, <<>>)),
     w2 |-> DeployType(FALSE, 1, 100, DeployHeader(1, 2, <<>>))]

\* The orders in which up to MaxPending of them come out of sets.pending.
PendingOrders ==
    {order \in SeqsUpTo(DOMAIN DeployTypes, MaxPending) :
        \A i, j \in DOMAIN order : i # j => order[i] # order[j]}

DeployConfigs ==
    [block_max_transfer_count : 0 .. MaxCount,
     block_max_deploy_count : 0 .. MaxCount,
     block_gas_limit : {2, 4},
     max_block_size : {500, 1000},
     max_ttl : {50},
     max_dependencies : {1}]

ProposeCalls ==
    [pending : PendingOrders,
     finalized_deploys : {{}, {"w1"}},
     unhandled_finalized : {{}},
     deploy_config : DeployConfigs,
     block_timestamp : {10},
     past_deploys : {{}, {"t1"}},
     random_bit : BOOLEAN]

contains_finalized(call, dep) ==
    dep \in call.finalized_deploys \/ dep \in call.unhandled_finalized

is_deploy_valid(call, header) ==
    LET all_deps_resolved ==
            \A i \in DOMAIN header.dependencies :
                \/ header.dependencies[i] \in call.past_deploys
                \/ contains_finalized(call, header.dependencies[i])
        ttl_valid == header.ttl <= call.deploy_config.max_ttl
        timestamp_valid == header.timestamp <= call.block_timestamp
        deploy_valid == header.timestamp + header.ttl >= call.block_timestamp
        num_deps_valid ==
            Len(header.dependencies) <= call.deploy_config.max_dependencies
    IN  ttl_valid /\ timestamp_valid /\ deploy_valid /\ num_deps_valid /\ all_deps_resolved

\* The loop over sets.pending from its i-th entry on; so_far holds transfers,
\* wasm_deploys and the two running totals.
RECURSIVE propose_from(_, _, _)
propose_from(call, so_far, i) ==
    IF i > Len(call.pending) THEN so_far
    ELSE
    LET hash == call.pending[i]
        deploy_type == DeployTypes[hash]
        max_transfers == call.deploy_config.block_max_transfer_count
        max_deploys == call.deploy_config.block_max_deploy_count
        max_block_size_bytes == call.deploy_config.max_block_size
        at_max_transfers == Len(so_far.transfers) = max_transfers
        at_max_deploys == Len(so_far.wasm_deploys) = max_deploys
        gas_running_total ==
            so_far.block_gas_running_total + deploy_type.payment_amount_gas
    IN  IF \/ so_far.block_size_running_total + DEPLOY_APPROX_MIN_SIZE
                  >= max_block_size_bytes
           \/ (at_max_deploys /\ at_max_transfers)
        THEN so_far
        ELSE IF \/ ~is_deploy_valid(call, deploy_type.header)
                \/ hash \in call.past_deploys
                \/ hash \in call.finalized_deploys
                \/ so_far.block_size_running_total + deploy_type.size
                       > max_block_size_bytes
        THEN propose_from(call, so_far, i + 1)
        ELSE IF gas_running_total > call.deploy_config.block_gas_limit
        THEN propose_from(call, so_far, i + 1)
        ELSE propose_from(
                 call,
                 [transfers |->
                      IF deploy_type.is_transfer /\ ~at_max_transfers
                      THEN Append(so_far.transfers, hash) ELSE so_far.transfers,
                  wasm_deploys |->
                      IF ~(deploy_type.is_transfer /\ ~at_max_transfers)
                             /\ ~at_max_deploys
                      THEN Append(so_far.wasm_deploys, hash) ELSE so_far.wasm_deploys,
                  block_gas_running_total |-> gas_running_total,
                  block_size_running_total |->
                      so_far.block_size_running_total + deploy_type.size],
                 i + 1)

ProtoBlock_new(wasm_deploys, transfers, random_bit) ==
    [wasm_deploys |-> wasm_deploys, transfers |-> transfers, random_bit |-> random_bit]

propose_proto_block(call) ==
    LET chosen == propose_from(call,
                               [transfers |-> <<>>, wasm_deploys |-> <<>>,
                                block_gas_running_total |-> 0,
                                block_size_running_total |-> 0],
                               1)
    IN  ProtoBlock_new(chosen.wasm_deploys, chosen.transfers, call.random_bit)

\* No block has been proposed.
NoProtoBlock == [proposed |-> FALSE, block |-> ProtoBlock_new(<<>>, <<>>, FALSE)]

ProposalAtRest ==
    /\ pb_call = [pending |-> <<>>, finalized_deploys |-> {}, unhandled_finalized |-> {},
                  deploy_config |-> [block_max_transfer_count |-> 0,
                                     block_max_deploy_count |-> 0,
                                     block_gas_limit |-> 2, max_block_size |-> 500,
                                     max_ttl |-> 50, max_dependencies |-> 1],
                  block_timestamp |-> 10, past_deploys |-> {}, random_bit |-> FALSE]
    /\ pb_block = NoProtoBlock

(***************************************************************************)
(* The small network: the connections it is trying to make, since its      *)
(* construction for the known addresses and later for addresses received,  *)
(* and the connections it has.                                             *)
(***************************************************************************)
MaxKnown == 2

MaxTasks == 3

\* Socket addresses nodes listen on.
Addresses == {"A", "B"}

\* The remote address of an accepted connection is any socket address.
PeerAddresses == Addresses \cup {"E"}

\* What cfg.known_addresses may name: two names of A, a name of B, a name of nothing.
Hosts == {"a1", "a2", "b", "nowhere"}

KnownAddresses == SeqsUpTo(Hosts, MaxKnown)

our_id == "our"

NodeIds == {our_id, "peer"}

\* utils::resolve_address
resolve_address(address) ==
    CASE address \in {"a1", "a2"} -> [ok |-> TRUE, known_address |-> "A"]
      [] address = "b" -> [ok |-> TRUE, known_address |-> "B"]
      [] OTHER -> [ok |-> FALSE, known_address |-> "none"]

\* The futures whose end is an event: connect_outgoing for a known address or for an
\* address received, message_sender of an outgoing connection, message_reader of an
\* incoming one.
Future(kind, peer_id, peer_address) ==
    [kind |-> kind, peer_id |-> peer_id, peer_address |-> peer_address]

Futures ==
    {Future(kind, "none", a) : kind \in {"known", "peer"}, a \in Addresses}
        \cup {Future("sender", id, a) : id \in NodeIds, a \in Addresses}
        \cup {Future("reader", id, a) : id \in NodeIds, a \in PeerAddresses}

\* An event that is not the end of a future of the component.
NoFuture == Future("none", "none", "none")

NoFutures == [f \in Futures |-> 0]

RECURSIVE Spawned(_, _)
Spawned(running, futures) ==
    IF futures = <<>> THEN running
    ELSE Spawned([running EXCEPT ![Head(futures)] = @ + 1], Tail(futures))

RECURSIVE InFlightAmong(_, _)
InFlightAmong(running, S) ==
    IF S = {} THEN 0
    ELSE LET f == CHOOSE f \in S : TRUE
         IN  running[f] + InFlightAmong(running, S \ {f})

InFlight(running) == InFlightAmong(running, Futures)

\* What a handler leaves: the component, the futures it started, and whether it
\* returned ("ok"), asked for a fatal shutdown, or panicked.
Handling(sn, futures, outcome) == [sn |-> sn, futures |-> futures, outcome |-> outcome]

is_isolated(sn) ==
    sn.pending = {} /\ DOMAIN sn.outgoing = {} /\ DOMAIN sn.incoming = {}

terminate_if_isolated(sn) ==
    IF is_isolated(sn) /\ ~sn.is_bootstrap_node
    THEN Handling(sn, <<>>, "fatal")
    ELSE Handling(sn, <<>>, "ok")

\* The bootstrap loop of SmallNetwork::new, from the i-th known address on.
RECURSIVE bootstrap(_, _, _)
bootstrap(did, known_addresses, i) ==
    IF i > Len(known_addresses) THEN did
    ELSE LET resolved == resolve_address(known_addresses[i])
         IN  IF resolved.ok
             THEN bootstrap(
                      Handling([did.sn EXCEPT !.pending = @ \cup {resolved.known_address}],
                               Append(did.futures,
                                      Future("known", "none", resolved.known_address)),
                               did.outcome),
                      known_addresses, i + 1)
             ELSE bootstrap(did, known_addresses, i + 1)

SmallNetwork_new(known_addresses) ==
    LET model == [is_bootstrap_node |-> FALSE,
                  incoming |-> HashMap_new,
                  outgoing |-> HashMap_new,
                  pending |-> {},
                  blocklist |-> {}]
        did == bootstrap(Handling(model, <<>>, "ok"), known_addresses, 1)
    IN  IF did.sn.pending = {} /\ known_addresses # <<>>
        THEN Handling(did.sn, did.futures, "fatal")
        ELSE did

\* Event::BootstrappingFailed in handle_event
bootstrapping_failed(sn, peer_address) ==
    LET was_removed == peer_address \in sn.pending
        removed == [sn EXCEPT !.pending = @ \ {peer_address}]
    IN  IF ~was_removed THEN Handling(removed, <<>>, "panic")
        ELSE terminate_if_isolated(removed)

SmallNetwork_remove(sn, peer_id, add_to_blocklist) ==
    LET incoming_removed ==
            IF peer_id \in DOMAIN sn.incoming
            THEN [sn EXCEPT !.incoming = remove(@, peer_id),
                            !.pending = @ \ {sn.incoming[peer_id]}]
            ELSE sn
        outgoing_removed ==
            IF peer_id \in DOMAIN incoming_removed.outgoing
            THEN [incoming_removed EXCEPT
                     !.outgoing = remove(@, peer_id),
                     !.blocklist = IF add_to_blocklist
                                   THEN @ \cup {incoming_removed.outgoing[peer_id]}
                                   ELSE @]
            ELSE incoming_removed
    IN  terminate_if_isolated(outgoing_removed)

\* The transport is that of the connection to peer_address.
setup_outgoing(sn, peer_id, peer_address) ==
    IF peer_address \notin sn.pending THEN Handling(sn, <<>>, "ok")
    ELSE LET removed == [sn EXCEPT !.pending = @ \ {peer_address}]
         IN  IF peer_id = our_id
             THEN Handling([removed EXCEPT !.is_bootstrap_node = TRUE], <<>>, "ok")
             ELSE Handling([removed EXCEPT !.outgoing = insert(@, peer_id, peer_address)],
                           <<Future("sender", peer_id, peer_address)>>, "ok")

\* peer_id is "none" for Option::None.
handle_outgoing_lost(sn, peer_id, peer_address) ==
    LET removed == [sn EXCEPT !.pending = @ \ {peer_address}]
    IN  IF peer_id # "none" THEN SmallNetwork_remove(removed, peer_id, FALSE)
        ELSE Handling(removed, <<>>, "ok")

\* With a result that is Ok, of a peer that has not disconnected.
handle_incoming_tls_handshake_completed(sn, peer_id, peer_address) ==
    IF peer_id = our_id
    THEN Handling([sn EXCEPT !.is_bootstrap_node = TRUE], <<>>, "ok")
    ELSE Handling([sn EXCEPT !.incoming = insert(@, peer_id, peer_address)],
                  <<Future("reader", peer_id, peer_address)>>, "ok")

connect_to_peer_if_required(sn, peer_address) ==
    IF \/ peer_address \in sn.pending
       \/ peer_address \in sn.blocklist
       \/ \E id \in DOMAIN sn.outgoing : sn.outgoing[id] = peer_address
    THEN Handling(sn, <<>>, "ok")
    ELSE Handling([sn EXCEPT !.pending = @ \cup {peer_address}],
                  <<Future("peer", "none", peer_address)>>, "ok")

NetworkEvent(name, peer_id, peer_address, outcome) ==
    [name |-> name, peer_id |-> peer_id, peer_address |-> peer_address,
     outcome |-> outcome]

NetworkAtRest ==
    /\ small_network = SmallNetwork_new(<<>>).sn
    /\ net_tasks = NoFutures
    /\ net_op = NetworkEvent("new", "none", "none", "ok")

(***************************************************************************)
(* SpecCandidates: the pending candidates of an era built without slashed  *)
(* validators, under every sequence of calls.                              *)
(***************************************************************************)
Idle == [stage |-> "idle", v1 |-> 0, v2 |-> 0, proto_block |-> "none"]

\* What the variables outside the era hold while a specification of Era runs.
EraIdAtRest ==
    /\ era_id = U64(0)
    /\ overflow_checks = FALSE
    /\ id_pc = "rest"
    /\ id_x = U64(0)
    /\ id_successor = U64(0)
    /\ id_result = None
    /\ id_bytes = <<>>
    /\ id_length = 0
    /\ id_stream = <<>>
    /\ id_decoded = Err
    /\ id_iter = NoEras

NoCall == [name |-> "none", timestamp |-> 0, change |-> "none", summit |-> FALSE]

MeterAtRest ==
    /\ meter = RoundSuccessMeter_new(0, 0, 0, 0)
    /\ now = 0
    /\ m_op = NoCall
    /\ m_ret = 0

NoEvent ==
    [name |-> "none", era_id |-> U64(0), faulty_num |-> 0, delay |-> 0,
     disturbed |-> FALSE, booking_block_hash |-> "Ok", key_block_seed |-> "Ok",
     get_validators_result |-> [kind |-> "None", weights |-> NoWeights]]

\* What handling an event came to, but for the supervisor it left.
Out(o) == [effects |-> o.effects, panic |-> o.panic, era |-> o.era]

EraSupervisor_new ==
    [active_eras |-> [e \in {U64(0)} |-> [faulty |-> 0, validators |-> [v \in {1, 2} |-> 1]]],
     current_era |-> U64(0)]

SupervisorAtRest ==
    /\ supervisor = EraSupervisor_new
    /\ sv_pending = {}
    /\ sv_op = NoEvent
    /\ sv_out = Out(Handled(EraSupervisor_new, {}))

\* What handling an event came to, but for the proposer it left.
ProposerOut(o) == [effects |-> o.effects, handled |-> o.handled, aborted |-> o.aborted]

\* The history while no two announcements were for the same height: the argument of
\* BlockProposer::new once Loaded brought it, the heights announced, and the heights
\* handed to handle_finalized_block, in order.
NoAnnouncements == [loaded |-> FALSE, first |-> 0, delivered |-> {}, handled |-> <<>>,
              repeated |-> FALSE]

\* The history is given up once a height is announced twice.
Repeated == [NoAnnouncements EXCEPT !.repeated = TRUE]

ProposerAtRest ==
    /\ proposer = BlockProposer_new
    /\ bp_op = NoProposerEvent
    /\ bp_out = ProposerOut(Did(BlockProposer_new.ready, <<>>, <<>>))
    /\ bp_hist = NoAnnouncements

\* A task that is in no call.
Resting == [pc |-> "start", sent |-> 0, advances |-> 0]

\* waited: for each queue, the pops from other queues since its head became its head.
NoPops == [popped |-> <<>>, quiet |-> TRUE, run |-> 0,
           waited |-> [i \in DOMAIN weights |-> 0]]

SchedulerAtRest ==
    /\ scheduler = WeightedRoundRobin_new(weights)
    /\ tasks = [t \in {} |-> Resting]
    /\ rr_hist = NoPops

LaterAtRest ==
    SupervisorAtRest /\ ProposerAtRest /\ SchedulerAtRest /\ NetworkAtRest /\ ProposalAtRest

OutsideEraAtRest == EraIdAtRest /\ MeterAtRest /\ LaterAtRest

InitCandidates ==
    /\ Era_new([newly_slashed |-> <<>>, slashed |-> {}])
    /\ script = Idle
    /\ OutsideEraAtRest

AddCandidate ==
    /\ \E id \in CandidateIds, b \in ProtoBlocks, m \in MissingEvidenceLists :
           add_candidate(id, b, m)
    /\ UNCHANGED <<script, outsideEra>>

ResolveEvidence ==
    /\ \E v \in Accused : resolve_evidence(v)
    /\ UNCHANGED <<script, outsideEra>>

ResolveValidity ==
    /\ \E b \in ProtoBlocks, valid \in BOOLEAN : resolve_validity(b, valid)
    /\ UNCHANGED <<script, outsideEra>>

NextCandidates == AddCandidate \/ ResolveEvidence \/ ResolveValidity

SpecCandidates == InitCandidates /\ [][NextCandidates]_vars

(***************************************************************************)
(* SpecEra: every operation of an era built with any slashed validators.   *)
(* The operations on candidates act on one candidate here; SpecCandidates  *)
(* has them on several.                                                    *)
(***************************************************************************)
InitEra ==
    /\ \E a \in NewEraArguments : Era_new(a)
    /\ script = Idle
    /\ OutsideEraAtRest

AddAccusations ==
    /\ \E list \in SeqsUpTo(Validators, MaxAccusations) : add_accusations(list)
    /\ UNCHANGED <<script, outsideEra>>

Accusations ==
    /\ Era_accusations
    /\ UNCHANGED <<script, outsideEra>>

AddOneCandidate ==
    /\ \E b \in ProtoBlocks, m \in MissingEvidenceLists : add_candidate(1, b, m)
    /\ UNCHANGED <<script, outsideEra>>

NextEra ==
    AddAccusations \/ Accusations \/ AddOneCandidate \/ ResolveEvidence \/ ResolveValidity

SpecEra == InitEra /\ [][NextEra]_vars

(***************************************************************************)
(* SpecScenario: a caller that adds candidate 1 naming two validators v1   *)
(* and v2, resolves the evidence against v1, then accepts the proto block  *)
(* and resolves the evidence against v2, in either order.  Before and      *)
(* after it the other candidates are added and any evidence and validity   *)
(* are resolved.                                                           *)
(***************************************************************************)
InitScenario == InitCandidates

ScenarioBackground ==
    /\ script.stage \in {"idle", "both", "after"}
    /\ \/ \E id \in CandidateIds \ {1}, b \in ProtoBlocks, m \in MissingEvidenceLists :
              add_candidate(id, b, m)
       \/ \E v \in Accused : resolve_evidence(v)
       \/ \E b \in ProtoBlocks, valid \in BOOLEAN : resolve_validity(b, valid)
    /\ script' = IF script.stage = "idle" THEN script ELSE [script EXCEPT !.stage = "after"]
    /\ UNCHANGED outsideEra

ScenarioAdd ==
    /\ script.stage = "idle"
    /\ \E b \in ProtoBlocks, v1 \in Accused : \E v2 \in Accused \ {v1} :
           /\ add_candidate(1, b, <<v1, v2>>)
           /\ script' = [stage |-> "added", v1 |-> v1, v2 |-> v2, proto_block |-> b]
    /\ UNCHANGED outsideEra

ScenarioFirstEvidence ==
    /\ script.stage = "added"
    /\ resolve_evidence(script.v1)
    /\ script' = [script EXCEPT !.stage = "first"]
    /\ UNCHANGED outsideEra

ScenarioValidity ==
    /\ script.stage \in {"first", "evidence"}
    /\ resolve_validity(script.proto_block, TRUE)
    /\ script' = [script EXCEPT !.stage = IF @ = "first" THEN "validity" ELSE "both"]
    /\ UNCHANGED outsideEra

ScenarioSecondEvidence ==
    /\ script.stage \in {"first", "validity"}
    /\ resolve_evidence(script.v2)
    /\ script' = [script EXCEPT !.stage = IF @ = "first" THEN "evidence" ELSE "both"]
    /\ UNCHANGED outsideEra

NextScenario ==
    \/ ScenarioBackground
    \/ ScenarioAdd
    \/ ScenarioFirstEvidence
    \/ ScenarioValidity
    \/ ScenarioSecondEvidence

SpecScenario == InitScenario /\ [][NextScenario]_vars

(***************************************************************************)
(* SpecEraId: the evaluation of e.successor().checked_sub(x), for the      *)
(* EraIds e and the arguments x tried, in either kind of build.            *)
(***************************************************************************)
EraAtRest ==
    /\ Era_new([newly_slashed |-> <<>>, slashed |-> {}])
    /\ script = Idle

InitEraId ==
    /\ era_id \in EraIds
    /\ overflow_checks \in BOOLEAN
    /\ id_pc = "start"
    /\ id_x = U64(0)
    /\ id_successor = U64(0)
    /\ id_result = None
    /\ id_bytes = <<>>
    /\ id_length = 0
    /\ id_stream = <<>>
    /\ id_decoded = Err
    /\ id_iter = NoEras
    /\ EraAtRest
    /\ MeterAtRest
    /\ LaterAtRest

Successor ==
    /\ id_pc = "start"
    /\ LET r == successor(era_id, overflow_checks)
       IN  /\ id_pc' = IF r.panic THEN "panicked" ELSE "successor"
           /\ id_successor' = r.value
    /\ UNCHANGED <<era_id, overflow_checks, id_x, id_result, bytesVars, iterVars,
                   outsideEraId>>

CheckedSub ==
    /\ id_pc = "successor"
    /\ \E x \in SubArguments :
           /\ id_x' = x
           /\ id_result' = checked_sub(id_successor, x)
    /\ id_pc' = "checked_sub"
    /\ UNCHANGED <<era_id, overflow_checks, id_successor, bytesVars, iterVars,
                   outsideEraId>>

ToBytes ==
    /\ id_pc = "start"
    /\ id_bytes' = to_bytes(era_id)
    /\ id_length' = serialized_length(era_id)
    /\ id_pc' = "to_bytes"
    /\ UNCHANGED <<era_id, overflow_checks, id_x, id_successor, id_result,
                   id_stream, id_decoded, iterVars, outsideEraId>>

FromBytes ==
    /\ id_pc = "to_bytes"
    /\ \E stream \in Streams(id_bytes) :
           /\ id_stream' = stream
           /\ id_decoded' = from_bytes(stream)
    /\ id_pc' = "from_bytes"
    /\ UNCHANGED <<era_id, overflow_checks, id_x, id_successor, id_result,
                   id_bytes, id_length, iterVars, outsideEraId>>

\* e.iter_bonded(x) and e.iter_other(x), each run to its end.
IterBonded ==
    /\ id_pc = "start"
    /\ \E x \in Windows :
           /\ Near(era_id) \/ Near(x)
           /\ id_x' = x
           /\ id_iter' = [bonded |-> iter_bonded(era_id, x),
                          other |-> iter_other(era_id, x)]
    /\ id_pc' = "iter"
    /\ UNCHANGED <<era_id, overflow_checks, id_successor, id_result, bytesVars,
                   outsideEraId>>

NextEraId == Successor \/ CheckedSub \/ ToBytes \/ FromBytes \/ IterBonded

SpecEraId == InitEraId /\ [][NextEraId]_vars

(***************************************************************************)
(* SpecNewExponent: new_exponent, on the meters calculate_new_exponent     *)
(* may call it for: every history up to the full window with every number  *)
(* of failures, round indices at and off the multiples of                  *)
(* ACCELERATION_PARAMETER, and every choice of the three exponents.        *)
(***************************************************************************)
\* A history of len rounds of which failed have failed: the newest ones in a history
\* of even length, the oldest ones in one of odd length.
History(len, failed) ==
    [i \in 1 .. len |-> IF len % 2 = 0 THEN i > failed ELSE i <= len - failed]

Histories ==
    UNION {{History(len, failed) : failed \in 0 .. len} :
           len \in 0 .. NUM_ROUNDS_TO_CONSIDER}

RoundIndices ==
    {0, ACCELERATION_PARAMETER - 1, ACCELERATION_PARAMETER, 2 * ACCELERATION_PARAMETER}

\* How far into its round a meter's round id may point: tests advance it by single
\* milliseconds.
Offsets(round_exp) == {0, shl(1, round_exp) - 1}

InitNewExponent ==
    /\ \E rounds \in Histories, index \in RoundIndices, round_exp \in Exps,
          min_round_exp \in Exps, max_round_exp \in Exps :
           \E offset \in Offsets(round_exp) :
               meter = [rounds |-> rounds,
                        current_round_id |-> shl(index, round_exp) + offset,
                        proposals |-> <<>>,
                        min_round_exp |-> min_round_exp,
                        max_round_exp |-> max_round_exp,
                        current_round_exp |-> round_exp]
    /\ now = 0
    /\ m_op = NoCall
    /\ m_ret = 0
    /\ EraAtRest
    /\ EraIdAtRest
    /\ LaterAtRest

NewExponent ==
    /\ m_op.name = "none"
    /\ m_ret' = new_exponent(meter)
    /\ m_op' = [NoCall EXCEPT !.name = "new_exponent"]
    /\ UNCHANGED <<meter, now, outsideMeter>>

NextNewExponent == NewExponent

SpecNewExponent == InitNewExponent /\ [][NextNewExponent]_vars

(***************************************************************************)
(* SpecMeter: a meter built with min_round_exp <= round_exp <=             *)
(* max_round_exp, under every sequence of new_proposal and                 *)
(* calculate_new_exponent, while the clock moves on by nothing, by a       *)
(* millisecond, by a dozen, or by more than a window of rounds.            *)
(***************************************************************************)
\* The timestamps a meter is built with; the clock starts at 0.
StartTimes == {0, 3}

\* By how much the clock has moved on when calculate_new_exponent reads it.
Advances == {0, 1, MAX_FAILED_ROUNDS + 2, NUM_ROUNDS_TO_CONSIDER + 5}

\* The timestamps of proposals: in the round before the tracked one, at the end of
\* the tracked one, and in the round after it.
ProposalTimes(m) ==
    {t \in {m.current_round_id - 1,
            m.current_round_id + shl(1, m.current_round_exp) - 1,
            m.current_round_id + shl(1, m.current_round_exp)} : t >= 0}

\* The protocol states: h1 has a summit in some and h2 in none.
States == {{}, {"h1"}}

\* The exponents a meter is built with.
MeterExps == {0, 1}

\* A history of rounds of one outcome, after older rounds of the other outcome if
\* after any.
Settled(rounds) ==
    Cardinality({i \in 1 .. Len(rounds) - 1 : rounds[i] # rounds[i + 1]}) <= 1

InitMeter ==
    /\ \E round_exp \in MeterExps, min_round_exp \in MeterExps,
          max_round_exp \in MeterExps, timestamp \in StartTimes :
           /\ min_round_exp <= round_exp
           /\ round_exp <= max_round_exp
           /\ meter = RoundSuccessMeter_new(round_exp, min_round_exp, max_round_exp,
                                            timestamp)
    /\ now = 0
    /\ m_op = [NoCall EXCEPT !.name = "new"]
    /\ m_ret = 0
    /\ EraAtRest
    /\ EraIdAtRest
    /\ LaterAtRest

NewProposal ==
    /\ Len(meter.proposals) < MaxProposals
    /\ \E proposal_h \in Hashes, timestamp \in ProposalTimes(meter) :
           /\ meter' = new_proposal(meter, proposal_h, timestamp)
           /\ m_op' = [name |-> "new_proposal", timestamp |-> timestamp,
                       change |-> m_op.change, summit |-> FALSE]
    /\ UNCHANGED <<now, m_ret, outsideMeter>>

\* calculate_new_exponent(state) when the clock reads t.  Of the runs, those are
\* followed whose history stays settled.
CalculateNewExponent ==
    /\ \E advance \in Advances, state \in States :
           LET t == now + advance
               r == calculate_new_exponent(meter, t, state)
           IN  /\ t <= MaxTime
               /\ Settled(r.meter.rounds)
               /\ now' = t
               /\ meter' = r.meter
               /\ m_ret' = r.value
               /\ m_op' = [name |-> "calculate_new_exponent", timestamp |-> t,
                           change |->
                               IF r.meter.current_round_exp # meter.current_round_exp
                               THEN "changed"
                               ELSE IF m_op.change = "changed" THEN "next"
                               ELSE "none",
                           summit |->
                               /\ round_id(t, meter.current_round_exp)
                                      > meter.current_round_id
                               /\ Range(meter.proposals) \cap state # {}]
    /\ UNCHANGED outsideMeter

NextMeter == NewProposal \/ CalculateNewExponent

SpecMeter == InitMeter /\ [][NextMeter]_vars

(***************************************************************************)
(* SpecSupervisor: a supervisor with its first era, under CreateNewEra     *)
(* events with every outcome of the three lookups, messages with           *)
(* evidence, and timer and DeactivateEra events that fire in any order,    *)
(* some of them twice.                                                     *)
(***************************************************************************)
\* The eras of a run: the first and the one created after it.
SupervisorEras == {U64(0), U64(1)}

InitSupervisor ==
    /\ supervisor = EraSupervisor_new
    /\ sv_pending = {Timer(U64(0))}
    /\ sv_op = NoEvent
    /\ sv_out = Out(Handled(EraSupervisor_new, {}))
    /\ EraAtRest
    /\ EraIdAtRest
    /\ MeterAtRest
    /\ ProposerAtRest
    /\ SchedulerAtRest
    /\ NetworkAtRest
    /\ ProposalAtRest

Event(ev) ==
    [NoEvent EXCEPT !.name = ev.name, !.era_id = ev.era_id,
                    !.faulty_num = ev.faulty_num, !.delay = ev.delay,
                    !.disturbed = ev.disturbed]

\* The scheduled event ev is handled with outcome o, and fires again later or not.
Deliver(ev, o, again) ==
    /\ supervisor' = o.es
    /\ sv_out' = Out(o)
    /\ sv_pending' = (IF again THEN sv_pending ELSE sv_pending \ {ev}) \cup o.effects
    /\ sv_op' = Event(ev)

TimerFires ==
    /\ ~sv_out.panic
    /\ \E ev \in sv_pending, again \in BOOLEAN :
           /\ ev.name = "Timer"
           /\ Deliver(ev, handle_timer(supervisor, ev.era_id), again)
    /\ UNCHANGED outsideSupervisor

DeactivateEraFires ==
    /\ ~sv_out.panic
    /\ \E ev \in sv_pending, again \in BOOLEAN :
           /\ ev.name = "DeactivateEra"
           /\ Deliver(ev, handle_deactivate_era(supervisor, ev.era_id, ev.faulty_num,
                                                ev.delay), again)
    /\ UNCHANGED outsideSupervisor

\* An era that is not the current one any more is to be deactivated after a delay.
ScheduleDeactivateEra ==
    /\ ~sv_out.panic
    /\ \E era \in DOMAIN supervisor.active_eras, delay \in Delays :
           /\ era # supervisor.current_era
           /\ \A ev \in sv_pending : ~(ev.name = "DeactivateEra" /\ ev.era_id = era)
           /\ sv_pending' = sv_pending \cup
                  {DeactivateEra(era, supervisor.active_eras[era].faulty, delay)}
           /\ sv_op' = [NoEvent EXCEPT !.name = "schedule", !.era_id = era]
    /\ sv_out' = Out(Handled(supervisor, {}))
    /\ UNCHANGED <<supervisor, outsideSupervisor>>

MessageReceived ==
    /\ ~sv_out.panic
    /\ \E era \in SupervisorEras :
           LET o == handle_message(supervisor, era)
           IN  /\ era[1] <= supervisor.current_era[1]
               /\ era \in DOMAIN supervisor.active_eras =>
                      supervisor.active_eras[era].faulty < MaxFaulty
               /\ supervisor' = o.es
               /\ sv_out' = Out(o)
               /\ sv_pending' =
                      {IF ev.name = "DeactivateEra" /\ ev.era_id = era
                              /\ o.es # supervisor
                       THEN [ev EXCEPT !.disturbed = TRUE]
                       ELSE ev : ev \in sv_pending} \cup o.effects
               /\ sv_op' = [NoEvent EXCEPT !.name = "MessageReceived", !.era_id = era]
    /\ UNCHANGED outsideSupervisor

CreateNewEra ==
    /\ ~sv_out.panic
    /\ successor(supervisor.current_era, TRUE).value \in SupervisorEras
    /\ \E booking_block_hash \in Lookups, key_block_seed \in Lookups,
          get_validators_result \in GetValidatorsResults :
           LET o == create_new_era(supervisor, supervisor.current_era,
                                   booking_block_hash, key_block_seed,
                                   get_validators_result)
           IN  /\ supervisor' = o.es
               /\ sv_out' = Out(o)
               /\ sv_pending' = sv_pending \cup o.effects
               /\ sv_op' = [NoEvent EXCEPT !.name = "CreateNewEra",
                                           !.era_id = supervisor.current_era,
                                           !.booking_block_hash = booking_block_hash,
                                           !.key_block_seed = key_block_seed,
                                           !.get_validators_result =
                                               get_validators_result]
    /\ UNCHANGED outsideSupervisor

NextSupervisor ==
    \/ CreateNewEra
    \/ TimerFires
    \/ MessageReceived
    \/ ScheduleDeactivateEra
    \/ DeactivateEraFires

SpecSupervisor == InitSupervisor /\ [][NextSupervisor]_vars

(***************************************************************************)
(* SpecProposer: a block proposer that is handed Loaded, finalized blocks, *)
(* requests, deploys and prune timers in any order.                        *)
(***************************************************************************)
InitProposer ==
    /\ ProposerAtRest
    /\ SupervisorAtRest
    /\ SchedulerAtRest
    /\ EraAtRest
    /\ EraIdAtRest
    /\ MeterAtRest
    /\ NetworkAtRest
    /\ ProposalAtRest

QueuedRequests(bp) ==
    Cardinality({ev \in Range(bp.pending) : ev.name = "RequestProtoBlock"})
        + Cardinality(UNION {{<<key, i>> : i \in DOMAIN bp.ready.request_queue[key]} :
                                 key \in DOMAIN bp.ready.request_queue})

\* The history after event came to o.
Recorded(event, o) ==
    IF bp_hist.repeated THEN Repeated
    ELSE IF event.name = "FinalizedProtoBlock" /\ event.height \in bp_hist.delivered
    THEN Repeated
    ELSE [loaded |-> bp_hist.loaded \/ event.name = "Loaded",
          first |-> IF event.name = "Loaded" /\ ~bp_hist.loaded
                    THEN event.next_finalized_block ELSE bp_hist.first,
          delivered |-> IF event.name = "FinalizedProtoBlock"
                        THEN bp_hist.delivered \cup {event.height}
                        ELSE bp_hist.delivered,
          handled |-> bp_hist.handled \o o.handled,
          repeated |-> FALSE]

HandleEvent(event) ==
    LET o == BlockProposer_handle_event(proposer, event)
    IN  /\ proposer.state = "Initializing" /\ event.name # "Loaded" =>
               Len(proposer.pending) < MaxBuffered
        /\ proposer' = o.bp
        /\ bp_op' = event
        /\ bp_out' = ProposerOut(o)
        /\ bp_hist' = Recorded(event, o)
        /\ UNCHANGED outsideProposer

LoadedArrives == \E next_finalized_block \in {0, 1} : HandleEvent(Loaded(next_finalized_block))

FinalizedProtoBlockArrives ==
    \E deploys \in BlockContents, height \in Heights :
        HandleEvent(FinalizedProtoBlock(deploys, height))

RequestArrives ==
    /\ QueuedRequests(proposer) < MaxRequests
    /\ \E next_finalized \in Heights : HandleEvent(RequestProtoBlock(next_finalized))

BufferDeployArrives ==
    \E hash \in DeployHashes, expired \in BOOLEAN : HandleEvent(BufferDeploy(hash, expired))

PruneFires == \E pruned \in SUBSET DeployHashes : HandleEvent(Prune(pruned))

NextProposer ==
    \/ LoadedArrives
    \/ FinalizedProtoBlockArrives
    \/ RequestArrives
    \/ BufferDeployArrives
    \/ PruneFires

SpecProposer == InitProposer /\ [][NextProposer]_vars

(***************************************************************************)
(* SpecScheduler: the scheduler of tests::should_respect_weighting.  Two   *)
(* futures push a, b, c to One and d, e, f to Two, each in this order,     *)
(* and two tasks pop whenever they get a permit.  A step is what a task   *)
(* does between two points where it may have to wait.                     *)
(***************************************************************************)
Pushers == {"future1", "future2"}

Poppers == {"pop1", "pop2"}

Pushes ==
    [future1 |-> [queue |-> "One", items |-> <<"a", "b", "c">>],
     future2 |-> [queue |-> "Two", items |-> <<"d", "e", "f">>]]

InitScheduler ==
    /\ scheduler = WeightedRoundRobin_new(weights)
    /\ tasks = [t \in Pushers \cup Poppers |-> Resting]
    /\ rr_hist = NoPops
    /\ ProposerAtRest
    /\ SupervisorAtRest
    /\ EraAtRest
    /\ EraIdAtRest
    /\ MeterAtRest
    /\ NetworkAtRest
    /\ ProposalAtRest

AllPushed == \A t \in Pushers : tasks[t].sent = Len(Pushes[t].items)

\* push: self.queues.get(&queue).expect(..), then the lock of push_back.
PushLocksQueue(t) ==
    /\ tasks[t].pc = "start"
    /\ tasks[t].sent < Len(Pushes[t].items)
    /\ IF Pushes[t].queue \notin DOMAIN scheduler.queues
       THEN /\ tasks' = [tasks EXCEPT ![t].pc = "panicked"]
            /\ UNCHANGED scheduler
       ELSE /\ scheduler.queues[Pushes[t].queue].lock = "none"
            /\ scheduler' = [scheduler EXCEPT !.queues[Pushes[t].queue].lock = t]
            /\ tasks' = [tasks EXCEPT ![t].pc = "push_back"]
    /\ UNCHANGED <<rr_hist, outsideScheduler>>

\* A push_back that puts the element before the others.
push_back_at_front(queue, element) == <<element>> \o queue

\* VecDeque::push_back
push_back(queue, element) == Append(queue, element)

\* VecDeque::pop_front on a queue that is not empty: the item and what is left.
pop_front(queue) == [item |-> Head(queue), queue |-> Tail(queue)]

\* push_back under the lock, which the end of the statement lets go.
PushBack(t) ==
    /\ tasks[t].pc = "push_back"
    /\ scheduler' = [scheduler EXCEPT
           !.queues[Pushes[t].queue].queue =
               push_back(@, Pushes[t].items[tasks[t].sent + 1]),
           !.queues[Pushes[t].queue].lock = "none"]
    /\ tasks' = [tasks EXCEPT ![t].pc = "fetch_add"]
    /\ UNCHANGED <<rr_hist, outsideScheduler>>

FetchAdd(t) ==
    /\ tasks[t].pc = "fetch_add"
    /\ scheduler' = [scheduler EXCEPT
           !.queues[Pushes[t].queue].event_count = fetch_add(@)]
    /\ tasks' = [tasks EXCEPT ![t].pc = "add_permits"]
    /\ UNCHANGED <<rr_hist, outsideScheduler>>

AddPermits(t) ==
    /\ tasks[t].pc = "add_permits"
    /\ scheduler' = [scheduler EXCEPT !.total = add_permits(@, 1)]
    /\ tasks' = [tasks EXCEPT ![t].pc = "start", ![t].sent = @ + 1]
    /\ UNCHANGED <<rr_hist, outsideScheduler>>

\* pop: self.total.acquire().await.forget()
Acquire(t) ==
    /\ tasks[t].pc = "start"
    /\ scheduler.total > 0
    /\ scheduler' = [scheduler EXCEPT !.total = @ - 1]
    /\ tasks' = [tasks EXCEPT ![t].pc = "lock_state", ![t].advances = 0]
    /\ rr_hist' = [rr_hist EXCEPT !.quiet = @ /\ AllPushed]
    /\ UNCHANGED outsideScheduler

LockState(t) ==
    /\ tasks[t].pc = "lock_state"
    /\ scheduler.state_lock = "none"
    /\ scheduler' = [scheduler EXCEPT !.state_lock = t]
    /\ tasks' = [tasks EXCEPT ![t].pc = "loop"]
    /\ UNCHANGED <<rr_hist, outsideScheduler>>

\* The head of the loop: the queue of the active slot and its lock.
PopLocksQueue(t) ==
    /\ tasks[t].pc = "loop"
    /\ IF scheduler.state.active_slot.key \notin DOMAIN scheduler.queues
       THEN /\ tasks' = [tasks EXCEPT ![t].pc = "panicked"]
            /\ UNCHANGED scheduler
       ELSE /\ scheduler.queues[scheduler.state.active_slot.key].lock = "none"
            /\ scheduler' =
                   [scheduler EXCEPT !.queues[scheduler.state.active_slot.key].lock = t]
            /\ tasks' = [tasks EXCEPT ![t].pc = "locked"]
    /\ UNCHANGED <<rr_hist, outsideScheduler>>

\* The body of the loop under the two locks: on to the next slot, or an item.
PopLoop(t) ==
    LET key == scheduler.state.active_slot.key
        current_queue == scheduler.queues[key].queue
    IN  /\ tasks[t].pc = "locked"
        /\ IF scheduler.state.active_slot.tickets = 0 \/ current_queue = <<>>
           THEN /\ scheduler' = [scheduler EXCEPT !.state = next_slot(scheduler),
                                                  !.queues[key].lock = "none"]
                /\ tasks' = [tasks EXCEPT ![t].pc = "loop", ![t].advances = @ + 1]
                /\ rr_hist' = [rr_hist EXCEPT !.run = 0]
           ELSE /\ scheduler' =
                       [scheduler EXCEPT
                           !.state.active_slot.tickets = @ - 1,
                           !.queues[key].queue = pop_front(@).queue,
                           !.queues[key].event_count = fetch_sub(@),
                           !.queues[key].lock = "none",
                           !.state_lock = "none"]
                /\ tasks' = [tasks EXCEPT ![t].pc = "start"]
                /\ rr_hist' = [rr_hist EXCEPT
                                   !.popped = Append(@, [item |-> pop_front(current_queue).item,
                                                         key |-> key]),
                                   !.run = @ + 1,
                                   !.waited = [i \in DOMAIN weights |->
                                       IF weights[i].key = key
                                           \/ scheduler.queues[weights[i].key].queue = <<>>
                                       THEN 0 ELSE @[i] + 1]]
        /\ UNCHANGED outsideScheduler

Push(t) == PushLocksQueue(t) \/ PushBack(t) \/ FetchAdd(t) \/ AddPermits(t)

Pop(t) == Acquire(t) \/ LockState(t) \/ PopLocksQueue(t) \/ PopLoop(t)

NextScheduler ==
    \/ \E t \in Pushers : Push(t)
    \/ \E t \in Poppers : Pop(t)

SpecScheduler == InitScheduler /\ [][NextScheduler]_vars

\* Every task that can take a step takes one in the end: the runtime polls every
\* task that was woken, and Mutex and Semaphore wake their waiters.
FairScheduler ==
    /\ SpecScheduler
    /\ \A t \in Pushers : WF_vars(Push(t))
    /\ \A t \in Poppers : WF_vars(Pop(t))

(***************************************************************************)
(* SpecProposal: propose_proto_block, called once for each of the deploy   *)
(* sets and arguments of ProposeCalls.                                     *)
(***************************************************************************)
InitProposal ==
    /\ pb_call \in ProposeCalls
    /\ pb_block = NoProtoBlock
    /\ SupervisorAtRest
    /\ ProposerAtRest
    /\ SchedulerAtRest
    /\ NetworkAtRest
    /\ EraAtRest
    /\ EraIdAtRest
    /\ MeterAtRest

ProposeProtoBlock ==
    /\ ~pb_block.proposed
    /\ pb_block' = [proposed |-> TRUE, block |-> propose_proto_block(pb_call)]
    /\ UNCHANGED <<pb_call, outsideProposal>>

NextProposal == ProposeProtoBlock

SpecProposal == InitProposal /\ [][NextProposal]_vars

(***************************************************************************)
(* SpecNetwork: the small network built for every list of known addresses, *)
(* under every order in which its connection attempts and connections end, *)
(* connections come in and addresses are received.  An event is handled    *)
(* when the future it comes from ends.  After a fatal error or a panic no  *)
(* event is handled.  The address gossip and its timer are left out.       *)
(***************************************************************************)
InitNetwork ==
    /\ \E known_addresses \in KnownAddresses :
           LET did == SmallNetwork_new(known_addresses)
           IN  /\ small_network = did.sn
               /\ net_tasks = Spawned(NoFutures, did.futures)
               /\ net_op = NetworkEvent("new", "none", "none", did.outcome)
    /\ ProposalAtRest
    /\ SupervisorAtRest
    /\ ProposerAtRest
    /\ SchedulerAtRest
    /\ EraAtRest
    /\ EraIdAtRest
    /\ MeterAtRest

Running == net_op.outcome = "ok"

\* The future ended, if there is one, and its event was handled.
Handle(ended, name, peer_id, peer_address, did) ==
    /\ small_network' = did.sn
    /\ net_tasks' = Spawned(IF ended \in Futures
                            THEN [net_tasks EXCEPT ![ended] = @ - 1]
                            ELSE net_tasks,
                            did.futures)
    /\ net_op' = NetworkEvent(name, peer_id, peer_address, did.outcome)
    /\ UNCHANGED outsideNetwork

BootstrappingFailedArrives ==
    /\ Running
    /\ \E a \in Addresses :
           /\ net_tasks[Future("known", "none", a)] > 0
           /\ Handle(Future("known", "none", a), "BootstrappingFailed", "none", a,
                     bootstrapping_failed(small_network, a))

OutgoingEstablishedArrives ==
    /\ Running
    /\ \E kind \in {"known", "peer"}, a \in Addresses, peer_id \in NodeIds :
           /\ net_tasks[Future(kind, "none", a)] > 0
           /\ Handle(Future(kind, "none", a), "OutgoingEstablished", peer_id, a,
                     setup_outgoing(small_network, peer_id, a))

OutgoingFailedArrives ==
    /\ Running
    /\ \E f \in Futures :
           /\ f.kind \in {"peer", "sender"}
           /\ net_tasks[f] > 0
           /\ Handle(f, "OutgoingFailed", f.peer_id, f.peer_address,
                     handle_outgoing_lost(small_network, f.peer_id, f.peer_address))

IncomingHandshakeCompletedArrives ==
    /\ Running
    /\ InFlight(net_tasks) < MaxTasks
    /\ \E peer_id \in NodeIds, a \in PeerAddresses :
           Handle(NoFuture, "IncomingHandshakeCompleted", peer_id, a,
                  handle_incoming_tls_handshake_completed(small_network, peer_id, a))

IncomingClosedArrives ==
    /\ Running
    /\ \E f \in Futures :
           /\ f.kind = "reader"
           /\ net_tasks[f] > 0
           /\ Handle(f, "IncomingClosed", f.peer_id, f.peer_address,
                     SmallNetwork_remove(small_network, f.peer_id, FALSE))

PeerAddressReceivedArrives ==
    /\ Running
    /\ InFlight(net_tasks) < MaxTasks
    /\ \E a \in Addresses :
           Handle(NoFuture, "PeerAddressReceived", "none", a,
                  connect_to_peer_if_required(small_network, a))

NextNetwork ==
    \/ BootstrappingFailedArrives
    \/ OutgoingEstablishedArrives
    \/ OutgoingFailedArrives
    \/ IncomingHandshakeCompletedArrives
    \/ IncomingClosedArrives
    \/ PeerAddressReceivedArrives

SpecNetwork == InitNetwork /\ [][NextNetwork]_vars

(***************************************************************************)
(* Properties of the pending candidates.                                   *)
(***************************************************************************)
Completing == {"resolve_evidence", "accept_proto_block"}

\* The elements of s at the indices in I, in the order of s.
RECURSIVE Upto(_, _, _)
Upto(s, I, n) ==
    IF n = 0 THEN <<>>
    ELSE IF n \in I THEN Append(Upto(s, I, n - 1), s[n])
    ELSE Upto(s, I, n - 1)

Restriction(s, I) == Upto(s, I, Len(s))

Blocks(pcs) == [i \in DOMAIN pcs |-> pcs[i].candidate]

\* list without any occurrence of v, in the order of list.
RECURSIVE Without(_, _)
Without(list, v) ==
    IF list = <<>> THEN <<>>
    ELSE IF Head(list) = v THEN Without(Tail(list), v)
    ELSE <<Head(list)>> \o Without(Tail(list), v)

\* C1: every candidate that resolve_evidence or accept_proto_block returns is complete
\* when it is returned: accept_proto_block was called for its proto block since it was
\* added, and resolve_evidence was called for every validator its add_candidate named.
C1_OnlyCompleteReleased ==
    op.name \in Completing =>
        \A i \in DOMAIN ret :
            /\ hist[ret[i].id].accepted
            /\ hist[ret[i].id].awaiting = {}

C1_Witness ==
    /\ op.name \in Completing
    /\ ret # <<>>

\* C2: remove_complete_candidates, run on the list a resolve_evidence or an
\* accept_proto_block loop leaves, returns exactly the candidates that are validated and
\* miss no evidence, in their order, and leaves exactly the others pending, unchanged
\* and in their order.
C2_RemoveCompleteExact ==
    [][op'.name \in Completing =>
          LET list == IF op'.name = "resolve_evidence"
                      THEN without_evidence(candidates, op'.pub_key)
                      ELSE with_validated(candidates, op'.proto_block)
              done == {i \in DOMAIN list :
                          list[i].validated /\ Len(list[i].missing_evidence) = 0}
          IN  /\ ret' = Blocks(Restriction(list, done))
              /\ candidates' = Restriction(list, DOMAIN list \ done)]_vars

C2_Witness ==
    /\ op.name \in Completing
    /\ Len(ret) = 1
    /\ Len(candidates) = 1

\* C3: resolve_evidence(v) marks v faulty; afterwards no pending candidate misses
\* evidence against v; each candidate that was validated and missed evidence against v
\* alone is returned once and is no longer pending; every other candidate is not
\* returned and stays pending, its validated flag unchanged and its missing_evidence
\* the same list without every occurrence of v.
C3_ResolveEvidence ==
    [][op'.name = "resolve_evidence" =>
          LET v == op'.pub_key
          IN  /\ v \in faulty'
              /\ \A j \in DOMAIN candidates' : v \notin Range(candidates'[j].missing_evidence)
              /\ Len(ret') + Len(candidates') = Len(candidates)
              /\ \A i \in DOMAIN candidates :
                    LET pc == candidates[i]
                        stays == {j \in DOMAIN candidates' :
                                     candidates'[j].candidate = pc.candidate}
                    IN  IF pc.validated /\ Range(pc.missing_evidence) \subseteq {v}
                        THEN /\ Occurrences(ret', pc.candidate.id) = 1
                             /\ stays = {}
                        ELSE /\ Occurrences(ret', pc.candidate.id) = 0
                             /\ Cardinality(stays) = 1
                             /\ \A j \in stays :
                                   /\ candidates'[j].validated = pc.validated
                                   /\ candidates'[j].missing_evidence
                                          = Without(pc.missing_evidence, v)]_vars

C3_Witness ==
    /\ op.name = "resolve_evidence"
    /\ Len(ret) = 1
    /\ \E j \in DOMAIN candidates :
          /\ candidates[j].validated
          /\ candidates[j].missing_evidence # <<>>

\* C4: reject_proto_block(b) returns exactly the pending candidates whose proto block
\* is b, whatever their validated flag and missing evidence, and leaves exactly the
\* others pending, unchanged and in their order.
C4_RejectExact ==
    [][op'.name = "reject_proto_block" =>
          LET hit == {i \in DOMAIN candidates :
                         candidates[i].candidate.proto_block = op'.proto_block}
          IN  /\ ret' = Blocks(Restriction(candidates, hit))
              /\ candidates' = Restriction(candidates, DOMAIN candidates \ hit)]_vars

C4_Witness ==
    /\ op.name = "reject_proto_block"
    /\ candidates # <<>>
    /\ \E i \in DOMAIN ret : hist[ret[i].id].accepted

\* C5: in the scenario, candidate 1 is returned by none of add_candidate(1, [v1, v2]),
\* resolve_evidence(v1) and the first of accept_proto_block(its block) and
\* resolve_evidence(v2); the second of these two returns it once; no later call
\* returns it again.  resolve_evidence(v1) returns the empty list when no other
\* candidate was added.
C5_ScenarioReleasedOnce ==
    /\ script.stage \in {"added", "first", "validity", "evidence"} =>
          /\ Occurrences(ret, 1) = 0
          /\ hist[1].released = 0
          /\ IsPending(1)
    /\ (script.stage = "first" /\ \A id \in CandidateIds \ {1} : hist[id] = NoHistory) =>
          ret = <<>>
    /\ script.stage = "both" =>
          /\ Occurrences(ret, 1) = 1
          /\ hist[1].released = 1
          /\ ~IsPending(1)
    /\ script.stage = "after" =>
          /\ Occurrences(ret, 1) = 0
          /\ hist[1].released = 1
          /\ ~IsPending(1)

C5_Witness ==
    /\ script.stage = "after"
    /\ op.name \in Completing
    /\ hist[1].released = 1

\* C6: reject_proto_block for the proto block of the only two pending candidates
\* returns both and leaves none pending; with none pending, resolve_evidence and
\* accept_proto_block return the empty list; a candidate that reject_proto_block
\* returned is not pending and is returned by no later operation, until it is added
\* again.
C6_RejectedStayOut ==
    [][/\ (/\ op'.name = "reject_proto_block"
           /\ Len(candidates) = 2
           /\ \A i \in DOMAIN candidates :
                 candidates[i].candidate.proto_block = op'.proto_block)
          => (ret' = Blocks(candidates) /\ candidates' = <<>>)
       /\ (candidates = <<>> /\ op'.name \in Completing) => ret' = <<>>
       /\ \A id \in CandidateIds :
             hist'[id].rejected > 0 =>
                 /\ hist'[id].rejected = 1
                 /\ hist'[id].released = 0
                 /\ \A j \in DOMAIN candidates' : candidates'[j].candidate.id # id
                 /\ hist[id].rejected > 0 => Occurrences(ret', id) = 0]_vars

C6_Witness ==
    /\ op.name = "reject_proto_block"
    /\ Len(ret) = 2
    /\ candidates = <<>>

(***************************************************************************)
(* Properties of the slashed validators and the accusations.               *)
(***************************************************************************)
EraFields == <<candidates, newly_slashed, slashed, accusations, faulty>>

C8_AccusationsAreUnslashedAccused ==
    /\ accusations = accused \ slashed
    /\ accusations \cap slashed = {}

C8_Witness ==
    /\ op.name = "add_accusations"
    /\ accused \cap slashed # {}
    /\ accusations # {}

\* C9: accusations() returns the validators of the accusation set, each once, in
\* ascending order of their keys, whatever order the set hands them out in, and changes
\* no field of the era.
C9_AccusationsSorted ==
    [][op'.name = "accusations" =>
          /\ Range(ret') = accusations
          /\ \A i \in DOMAIN ret', j \in DOMAIN ret' : i < j => ret'[i] < ret'[j]
          /\ UNCHANGED EraFields]_vars

C9_Witness ==
    /\ op.name = "accusations"
    /\ Len(ret) >= 2

(***************************************************************************)
(* Properties of EraId.                                                    *)
(***************************************************************************)
\* C10: for every EraId e, the largest included, e.successor().checked_sub(1) is
\* evaluated without a panic and is Some(e).
C10_SuccessorCheckedSub ==
    /\ id_pc # "panicked"
    /\ (id_pc = "checked_sub" /\ id_x = U64(1)) => id_result = Some(era_id)

\* The same for every EraId but the largest, where successor() has no overflow.
SuccessorCheckedSubBelowMax ==
    era_id # U64_MAX => C10_SuccessorCheckedSub

\* C11: the bytes of an EraId decode to that EraId with nothing of the stream
\* left over, for every EraId, and serialized_length is the number of those bytes.
C11_BytesRoundTrip ==
    /\ id_pc \in {"to_bytes", "from_bytes"} => id_length = Len(id_bytes)
    /\ (id_pc = "from_bytes" /\ id_stream = id_bytes) =>
           id_decoded = Ok(era_id, <<>>)

\* The largest EraId and one with unequal bytes in a digit have been encoded and
\* decoded.
C11_Witness ==
    /\ id_pc = "from_bytes"
    /\ id_stream = id_bytes
    /\ id_length = Len(id_bytes)
    /\ id_decoded.ok
    /\ era_id \in {U64_MAX, [i \in 1 .. NumLimbs |-> IF i = 2 THEN 1 ELSE LimbBase - 2]}

(***************************************************************************)
(* Properties of RoundSuccessMeter::new_exponent.                          *)
(***************************************************************************)
FailedRounds(m) == Cardinality({i \in DOMAIN m.rounds : ~m.rounds[i]})

RoundIndex(m) == m.current_round_id \div (2 ^ m.current_round_exp)

Evaluated == m_op.name = "new_exponent"

\* C12: on an empty history new_exponent returns the current exponent, whatever the
\* round id, a round index that is a multiple of 40 included, and whatever the
\* smallest and the largest exponent.
C12_EmptyHistorySteady ==
    (Evaluated /\ meter.rounds = <<>>) => m_ret = meter.current_round_exp

\* An empty history at round index 40 with room to go down and up.
C12_Witness ==
    /\ Evaluated
    /\ meter.rounds = <<>>
    /\ RoundIndex(meter) = 40
    /\ meter.min_round_exp < meter.current_round_exp
    /\ m_ret = meter.current_round_exp

\* C13: with more than 10 failed rounds in the history and the exponent below the
\* largest, new_exponent returns the exponent plus one, at every round index and
\* whether or not the history is full; with 10 failures or fewer it never returns
\* more than the exponent.
C13_SlowDown ==
    Evaluated =>
        /\ (FailedRounds(meter) > 10 /\ meter.current_round_exp < meter.max_round_exp)
               => m_ret = meter.current_round_exp + 1
        /\ FailedRounds(meter) <= 10 => m_ret <= meter.current_round_exp

\* 11 failures in a history short of the window, off the multiples of 40.
C13_Witness ==
    /\ Evaluated
    /\ FailedRounds(meter) = 11
    /\ Len(meter.rounds) < 40
    /\ RoundIndex(meter) % 40 # 0
    /\ m_ret = meter.current_round_exp + 1

\* C15: with a history of exactly 40 rounds, all successful, at a round index
\* divisible by 40 and the exponent above the smallest, new_exponent returns the
\* exponent minus one; at a round index not divisible by 40, or with fewer than 40
\* rounds in the history, it never returns less than the exponent.
C15_SpeedUp ==
    Evaluated =>
        /\ ( /\ Len(meter.rounds) = 40
             /\ FailedRounds(meter) = 0
             /\ RoundIndex(meter) % 40 = 0
             /\ meter.current_round_exp > meter.min_round_exp )
               => m_ret = meter.current_round_exp - 1
        /\ (RoundIndex(meter) % 40 # 0 \/ Len(meter.rounds) < 40)
               => m_ret >= meter.current_round_exp

\* 40 successful rounds at round index 80, and the exponent went down.
C15_Witness ==
    /\ Evaluated
    /\ Len(meter.rounds) = 40
    /\ FailedRounds(meter) = 0
    /\ RoundIndex(meter) = 80
    /\ m_ret = meter.current_round_exp - 1

\* C16: with a history of 40 rounds, at a round index that is a multiple of 40 and
\* the exponent above the smallest, new_exponent returns the exponent minus one
\* whenever at most 3 of the rounds have failed: with 0, 1, 2 or 3 failures.
C16_SpeedUpWithAtMostThree ==
    ( /\ Evaluated
      /\ Len(meter.rounds) = 40
      /\ RoundIndex(meter) % 40 = 0
      /\ meter.current_round_exp > meter.min_round_exp
      /\ FailedRounds(meter) <= 3 )
        => m_ret = meter.current_round_exp - 1

\* The same with fewer than 3 failures, which is what new_exponent compares for.
SpeedUpWithFewerThanThree ==
    FailedRounds(meter) < 3 => C16_SpeedUpWithAtMostThree

(***************************************************************************)
(* Properties of the meter under new_proposal and calculate_new_exponent.  *)
(***************************************************************************)
RoundOf(t, round_exp) == (t \div (2 ^ round_exp)) * (2 ^ round_exp)

Calculated == m_op.name = "calculate_new_exponent"

\* The tracked round id is the start of a round, so that a call that finds the
\* round over finds a larger round index.
TrackedRoundAligned ==
    meter.current_round_id = RoundOf(meter.current_round_id, meter.current_round_exp)

\* C14: the exponent is clamped: with more than 10 failures at the largest exponent
\* the exponent returned is the largest, and with 40 successful rounds at a round
\* index divisible by 40 at the smallest exponent it is the smallest; the
\* exponent of the meter and every exponent returned stay from min_round_exp to
\* max_round_exp under every sequence of calls.
C14_ExponentWithinBounds ==
    /\ meter.min_round_exp <= meter.current_round_exp
    /\ meter.current_round_exp <= meter.max_round_exp
    /\ Calculated =>
           /\ meter.min_round_exp <= m_ret
           /\ m_ret <= meter.max_round_exp
           /\ (FailedRounds(meter) > 10
                    /\ meter.current_round_exp = meter.max_round_exp)
                  => m_ret = meter.max_round_exp
           /\ ( /\ Len(meter.rounds) = 40
                /\ FailedRounds(meter) = 0
                /\ RoundIndex(meter) % 40 = 0
                /\ meter.current_round_exp = meter.min_round_exp )
                  => m_ret = meter.min_round_exp

\* 40 successful rounds at a round index divisible by 40, at the smallest exponent
\* of a meter that has a larger one.
C14_Witness ==
    /\ Calculated
    /\ Len(meter.rounds) = 40
    /\ FailedRounds(meter) = 0
    /\ RoundIndex(meter) % 40 = 0
    /\ meter.current_round_exp = meter.min_round_exp
    /\ meter.min_round_exp < meter.max_round_exp
    /\ m_ret = meter.min_round_exp

\* More than 10 failures at the largest exponent of a meter that has a smaller one.
ClampedAtMax ==
    /\ Calculated
    /\ FailedRounds(meter) > 10
    /\ meter.current_round_exp = meter.max_round_exp
    /\ meter.min_round_exp < meter.max_round_exp
    /\ m_ret = meter.max_round_exp

\* The history new keeps the rounds of the history old, but for the oldest where
\* the window is full.
Kept(old, new) ==
    \E k \in 0 .. Len(new) :
        /\ Len(new) - k <= Len(old)
        /\ \A i \in (k + 1) .. Len(new) : new[i] = old[i - k]
        /\ Len(new) = Len(old) + k \/ Len(new) = 40

\* C17: a call of calculate_new_exponent that changes the exponent, up or down,
\* leaves the history and the proposals empty and the tracked round id at the
\* round of the current time under the new exponent, and returns the new
\* exponent; a call that finds the history empty and the tracked round not over
\* returns the exponent unchanged; a call that does not change the exponent
\* keeps the history.
C17_ChangeClearsHistory ==
    [][m_op'.name = "calculate_new_exponent" =>
          /\ meter'.current_round_exp # meter.current_round_exp =>
                 /\ meter'.rounds = <<>>
                 /\ meter'.proposals = <<>>
                 /\ meter'.current_round_id = RoundOf(now', meter'.current_round_exp)
                 /\ m_ret' = meter'.current_round_exp
          /\ meter'.current_round_exp = meter.current_round_exp =>
                 Kept(meter.rounds, meter'.rounds)
          /\ ( /\ meter.rounds = <<>>
               /\ RoundOf(now', meter.current_round_exp) <= meter.current_round_id )
                 => /\ m_ret' = meter.current_round_exp
                    /\ meter'.current_round_exp = meter.current_round_exp
                    /\ meter'.rounds = <<>>]_vars

\* The call after one that changed the exponent found the history empty and
\* returned the new exponent.
C17_Witness ==
    /\ Calculated
    /\ m_op.change = "next"
    /\ meter.rounds = <<>>
    /\ m_ret = meter.current_round_exp

\* A call has just lowered the exponent.
ExponentLowered ==
    /\ Calculated
    /\ m_op.change = "changed"
    /\ meter.current_round_exp < meter.max_round_exp
    /\ m_ret = meter.current_round_exp
    /\ meter.rounds = <<>>

Failed(n) == [i \in 1 .. n |-> FALSE]

FirstN(s, n) == SubSeq(s, 1, Min(Len(s), n))

\* C18: after every call of calculate_new_exponent the history has at most 40
\* entries; a call that finds the round over and keeps the exponent puts the
\* outcome of that round and a failure for each round skipped since in front of
\* the history, the latest first, and drops from its end what is beyond 40.
C18_HistoryBounded ==
    [][m_op'.name = "calculate_new_exponent" =>
          LET round_exp == meter.current_round_exp
              passed == (now' \div (2 ^ round_exp))
                            - (meter.current_round_id \div (2 ^ round_exp))
          IN  /\ Len(meter'.rounds) <= 40
              /\ (passed > 0 /\ meter'.current_round_exp = round_exp) =>
                     \E outcome \in BOOLEAN :
                         meter'.rounds =
                             FirstN(Failed(passed - 1) \o <<outcome>> \o meter.rounds, 40)]_vars

\* A meter that never changes its exponent after more than 40 rounds, with successes
\* and failures in its full history.
C18_Witness ==
    /\ Calculated
    /\ meter.min_round_exp = meter.max_round_exp
    /\ RoundIndex(meter) > 45
    /\ Len(meter.rounds) = 40
    /\ FailedRounds(meter) \in 1 .. 39

\* C19: new_proposal appends the hash to the proposals if its timestamp lies in the
\* tracked round under the current exponent; with a timestamp in any other round,
\* earlier or later, it leaves the proposals, the history and the exponent as
\* they are.
C19_OnlyTrackedRound ==
    [][m_op'.name = "new_proposal" =>
          IF RoundOf(m_op'.timestamp, meter.current_round_exp) = meter.current_round_id
          THEN \E proposal_h \in Hashes :
                   meter' = [meter EXCEPT !.proposals = Append(@, proposal_h)]
          ELSE meter' = meter]_vars

\* A proposal of an earlier round came in after rounds have been recorded.
C19_Witness ==
    /\ m_op.name = "new_proposal"
    /\ m_op.timestamp < meter.current_round_id
    /\ meter.rounds # <<>>

\* C20: a call of calculate_new_exponent while the round of the current time is not
\* after the tracked round leaves the meter as it is and returns its current
\* exponent.
C20_IdempotentWithinRound ==
    [][( /\ m_op'.name = "calculate_new_exponent"
         /\ RoundOf(now', meter.current_round_exp) <= meter.current_round_id )
          => /\ meter' = meter
             /\ m_ret' = meter.current_round_exp]_vars

\* A call within a round that has a proposal, after earlier rounds.
C20_Witness ==
    /\ Calculated
    /\ meter.proposals # <<>>
    /\ meter.rounds # <<>>
    /\ m_ret = meter.current_round_exp

\* The round boundaries crossed since the tracked round when the clock reads t.
Crossed(m, t) ==
    (t \div (2 ^ m.current_round_exp)) - (m.current_round_id \div (2 ^ m.current_round_exp))

\* C21 as stated: a call of calculate_new_exponent after k >= 1 round boundaries
\* leaves the history k entries longer, the outcome of the tracked round behind k - 1
\* failures in front of the entries it had, and the tracked round id at the start
\* of the round of the current time.
C21_HistoryGainsCrossedRounds ==
    [][(m_op'.name = "calculate_new_exponent" /\ Crossed(meter, now') >= 1) =>
          /\ meter'.rounds =
                 Failed(Crossed(meter, now') - 1) \o <<m_op'.summit>> \o meter.rounds
          /\ meter'.current_round_id = RoundOf(now', meter'.current_round_exp)]_vars

\* C21 amended: such a call records k entries, the outcome of the tracked round
\* behind k - 1 failures in front of the entries the history had; the history is
\* its 40 latest entries if the exponent stays, and is empty if the exponent
\* changes; the proposals are empty and the tracked round id is the start of the
\* round of the current time under the exponent the call leaves.
C21_RecordsCrossedRounds ==
    [][(m_op'.name = "calculate_new_exponent" /\ Crossed(meter, now') >= 1) =>
          LET recorded ==
                  Failed(Crossed(meter, now') - 1) \o <<m_op'.summit>> \o meter.rounds
          IN  /\ meter'.rounds =
                     IF meter'.current_round_exp = meter.current_round_exp
                     THEN FirstN(recorded, 40)
                     ELSE <<>>
              /\ meter'.proposals = <<>>
              /\ meter'.current_round_id = RoundOf(now', meter'.current_round_exp)]_vars

\* A successful tracked round was recorded behind failed skipped rounds, in front of
\* earlier rounds.
C21_Witness ==
    /\ Calculated
    /\ m_op.summit
    /\ Len(meter.rounds) > 12
    /\ ~meter.rounds[1]
    /\ \E i \in DOMAIN meter.rounds : meter.rounds[i]

\* The lookups of a CreateNewEra event that make its handling abort.
FailedLookup(ev) ==
    \/ ev.booking_block_hash = "Err"
    \/ ev.key_block_seed = "Err"
    \/ ev.get_validators_result.kind \in {"Err", "None"}

\* C22: handling CreateNewEra aborts the process when the booking block hash or the
\* key block seed is an error, or when the validator query is an error or Ok(None):
\* handle_create_new_era is not invoked, the supervisor and the scheduled events stay
\* as they were, no effect comes out, and nothing is handled after the abort. With
\* three good lookups the era is created.
C22_CreateNewEraAborts ==
    [][/\ ~sv_out.panic
       /\ sv_op'.name = "CreateNewEra" =>
              IF FailedLookup(sv_op')
              THEN /\ sv_out'.panic
                   /\ ~sv_out'.era.created
                   /\ sv_out'.effects = {}
                   /\ supervisor' = supervisor
                   /\ sv_pending' = sv_pending
              ELSE /\ ~sv_out'.panic
                   /\ sv_out'.era.created]_vars

C22_Witness ==
    /\ sv_op.name = "CreateNewEra"
    /\ sv_op.booking_block_hash = "Ok"
    /\ sv_op.key_block_seed = "Ok"
    /\ sv_op.get_validators_result.kind = "None"
    /\ sv_out.panic
    /\ ~sv_out.era.created

\* C23 as stated: the validators handed to handle_create_new_era hold every
\* validator the query returned, with its weight.
C23_EveryValidatorCarriedOver ==
    (sv_op.name = "CreateNewEra" /\ sv_out.era.created) =>
        \A key \in DOMAIN sv_op.get_validators_result.weights :
            /\ try_into(key).ok
            /\ try_into(key).key \in DOMAIN sv_out.era.validators
            /\ sv_out.era.validators[try_into(key).key] =
                   sv_op.get_validators_result.weights[key]

\* What the code does carry over: exactly the validators whose key converts.
ConvertibleValidatorsCarriedOver ==
    (sv_op.name = "CreateNewEra" /\ sv_out.era.created) =>
        LET returned == sv_op.get_validators_result.weights
        IN  /\ \A key \in DOMAIN returned :
                   try_into(key).ok =>
                       /\ try_into(key).key \in DOMAIN sv_out.era.validators
                       /\ sv_out.era.validators[try_into(key).key] = returned[key]
            /\ \A v \in DOMAIN sv_out.era.validators :
                   \E key \in DOMAIN returned : try_into(key).ok /\ try_into(key).key = v

\* An era created from a query result one of whose keys does not convert.
ValidatorDropped ==
    /\ sv_op.name = "CreateNewEra"
    /\ sv_out.era.created
    /\ \E key \in DOMAIN sv_op.get_validators_result.weights : ~try_into(key).ok

\* C28: a DeactivateEra event for an active era deactivates it only when the era's
\* number of faulty validators is still the faulty_num of the event; when the number
\* has gone up the era stays active and a DeactivateEra carrying the number of now is
\* scheduled with the same delay. No other step takes an era out of the active ones.
C28_DeactivateUnlessMoreFaulty ==
    [][/\ (sv_op'.name = "DeactivateEra"
             /\ sv_op'.era_id \in DOMAIN supervisor.active_eras) =>
              LET era == sv_op'.era_id
                  count == supervisor.active_eras[era].faulty
              IN  IF count = sv_op'.faulty_num
                  THEN /\ era \notin DOMAIN supervisor'.active_eras
                       /\ sv_out'.effects = {}
                  ELSE /\ count > sv_op'.faulty_num
                       /\ supervisor' = supervisor
                       /\ sv_out'.effects = {DeactivateEra(era, count, sv_op'.delay)}
                       /\ DeactivateEra(era, count, sv_op'.delay) \in sv_pending'
       /\ (DOMAIN supervisor.active_eras \ DOMAIN supervisor'.active_eras # {}) =>
              /\ sv_op'.name = "DeactivateEra"
              /\ ~sv_op'.disturbed
              /\ DOMAIN supervisor.active_eras \ DOMAIN supervisor'.active_eras =
                     {sv_op'.era_id}]_vars

\* Evidence came in during the delay: the era is still active and is looked at again.
C28_Witness ==
    /\ sv_op.name = "DeactivateEra"
    /\ sv_op.disturbed
    /\ sv_op.era_id \in DOMAIN supervisor.active_eras
    /\ supervisor.active_eras[sv_op.era_id].faulty > sv_op.faulty_num
    /\ DeactivateEra(sv_op.era_id, supervisor.active_eras[sv_op.era_id].faulty,
                     sv_op.delay) \in sv_pending

\* An era deactivated by an event that an earlier DeactivateEra scheduled.
DeactivatedOnSecondLook ==
    /\ sv_op.name = "DeactivateEra"
    /\ sv_op.faulty_num = MaxFaulty
    /\ ~sv_op.disturbed
    /\ sv_op.era_id \notin DOMAIN supervisor.active_eras

\* C29: a timer, a DeactivateEra or a message for an era that is not among the
\* active ones any more leaves the supervisor as it was, schedules nothing and
\* aborts nothing.
C29_RetiredEraIgnoresEvents ==
    [][(/\ sv_op'.name \in {"Timer", "DeactivateEra", "MessageReceived"}
        /\ sv_op'.era_id \notin DOMAIN supervisor.active_eras) =>
           /\ supervisor' = supervisor
           /\ sv_out'.effects = {}
           /\ ~sv_out'.panic
           /\ ~sv_out'.era.created
           /\ sv_pending' \subseteq sv_pending]_vars

\* A timer of the first era fires once more after the era has been retired.
C29_Witness ==
    /\ sv_op.name = "Timer"
    /\ sv_op.era_id \notin DOMAIN supervisor.active_eras
    /\ sv_op.era_id[1] < supervisor.current_era[1]
    /\ sv_out.effects = {}

\* A pending candidate that is validated and misses no evidence.
Complete(pc) == pc.validated /\ Len(pc.missing_evidence) = 0

\* C30: no candidate in the pending list of the era is complete, whatever calls of
\* add_candidate, resolve_evidence, accept_proto_block and reject_proto_block came
\* before; and a candidate that resolve_evidence or accept_proto_block hands out was
\* pending and not complete before that very call.
C30_NoCompleteCandidatePending ==
    /\ [](\A i \in DOMAIN candidates : ~Complete(candidates[i]))
    /\ [][op'.name \in Completing =>
             \A k \in DOMAIN ret' :
                 \E i \in DOMAIN candidates :
                     /\ candidates[i].candidate = ret'[k]
                     /\ ~Complete(candidates[i])]_vars

\* A candidate that waits for nothing but its validation stays pending, and an
\* accept_proto_block hands out another one.
C30_Witness ==
    /\ op.name = "accept_proto_block"
    /\ ret # <<>>
    /\ \E i \in DOMAIN candidates :
           /\ Len(candidates[i].missing_evidence) = 0
           /\ ~candidates[i].validated

\* C24 as stated: a Loaded event handed to a block proposer that is Ready aborts.
C24_LoadedWhileReadyAborts ==
    [][(proposer.state = "Ready" /\ bp_op'.name = "Loaded") => bp_out'.aborted]_vars

\* What the code does with it: nothing, and it carries on.
LoadedWhileReadyIgnored ==
    [][(proposer.state = "Ready" /\ bp_op'.name = "Loaded") =>
           /\ proposer' = proposer
           /\ bp_out'.effects = <<>>
           /\ ~bp_out'.aborted]_vars

LoadedWhileReady ==
    /\ proposer.state = "Ready"
    /\ bp_op.name = "Loaded"
    /\ bp_hist.loaded
    /\ bp_hist.first # bp_op.next_finalized_block

\* The last height h such that every height from first to h was announced; first - 1
\* when first itself was not.
RECURSIVE Reach(_, _)
Reach(first, delivered) ==
    IF first \in delivered THEN Reach(first + 1, delivered) ELSE first - 1

Expected ==
    <<[item |-> "a", key |-> "One"], [item |-> "d", key |-> "Two"],
      [item |-> "e", key |-> "Two"], [item |-> "b", key |-> "One"],
      [item |-> "f", key |-> "Two"], [item |-> "c", key |-> "One"]>>

\* The weight the constructor was given for the queue.
Weight(key) == (CHOOSE i \in DOMAIN weights : weights[i].key = key)

\* C26: the scheduler goes from a slot to the next one in the order of the
\* constructor, and only when the tickets of the slot are used up or its queue is
\* empty; the next slot starts with the weight of its queue as tickets; a pop returns
\* the head of the queue of the active slot; no more items than its weight come from a
\* queue between two changes of slot; and with a, b, c in One and d, e, f in Two
\* before the first pop, the pops return a, d, e, b, f, c.
C26_WeightedOrder ==
    /\ [](rr_hist.quiet => rr_hist.popped = SubSeq(Expected, 1, Len(rr_hist.popped)))
    /\ [](rr_hist.run <= weights[Weight(scheduler.state.active_slot.key)].tickets)
    /\ [][LET state == scheduler.state
              queue == scheduler.queues[state.active_slot.key].queue
          IN  /\ scheduler'.state # state =>
                     /\ state.active_slot = weights[state.active_slot_idx + 1]
                            \/ state.active_slot.tickets < 
                                   weights[state.active_slot_idx + 1].tickets
                     /\ \/ /\ state.active_slot.tickets = 0 \/ queue = <<>>
                           /\ scheduler'.state.active_slot_idx =
                                  (state.active_slot_idx + 1) % Len(weights)
                           /\ scheduler'.state.active_slot =
                                  weights[scheduler'.state.active_slot_idx + 1]
                           /\ rr_hist'.popped = rr_hist.popped
                        \/ /\ state.active_slot.tickets > 0
                           /\ queue # <<>>
                           /\ scheduler'.state.active_slot_idx = state.active_slot_idx
                           /\ rr_hist'.popped =
                                  Append(rr_hist.popped,
                                         [item |-> Head(queue),
                                          key |-> weights[state.active_slot_idx + 1].key])
              /\ rr_hist'.popped # rr_hist.popped => scheduler'.state # state]_vars

\* The six pops of the test, after the six pushes.
C26_Witness ==
    /\ rr_hist.quiet
    /\ rr_hist.popped = Expected

\* A pop that finds the queue of a slot with tickets left empty and goes on, while
\* the pushes are still going on.
EmptyQueueSkipped ==
    /\ ~rr_hist.quiet
    /\ \E t \in Poppers : tasks[t].pc = "loop" /\ tasks[t].advances = 2
    /\ Len(rr_hist.popped) > 1

\* The items in the queues.
Stored ==
    Len(scheduler.queues["One"].queue) + Len(scheduler.queues["Two"].queue)

\* The pops that hold a permit and no item yet.
Holding == Cardinality({t \in Poppers : tasks[t].pc \in {"lock_state", "loop", "locked"}})

\* The pushes that returned.
Pushed == tasks["future1"].sent + tasks["future2"].sent

TotalItems == Len(Pushes["future1"].items) + Len(Pushes["future2"].items)

\* C27: the permits handed out and not yet turned into an item, with those still in
\* the semaphore, are never more than the items in the queues; no task panics; a pop
\* goes on to the next slot at most once per slot before it finds its item; and
\* whenever more pushes have returned than pops, another pop returns.
C27_NoDeadlock ==
    /\ [](scheduler.total + Holding <= Stored)
    /\ [](\A t \in Pushers \cup Poppers : tasks[t].pc # "panicked")
    /\ [](\A t \in Poppers : tasks[t].advances <= Len(scheduler.slots))
    /\ \A n \in 0 .. (TotalItems - 1) :
           (Pushed > n /\ Len(rr_hist.popped) = n) ~> (Len(rr_hist.popped) > n)

\* A pop is waiting for a permit on the empty scheduler, a push is under way, and in
\* the end every item pushed was popped.
C27_Witness ==
    /\ Len(rr_hist.popped) = TotalItems
    /\ ~rr_hist.quiet
    /\ scheduler.total = 0
    /\ \A t \in Poppers : tasks[t].pc = "start"

\* Both pops wait on the empty scheduler while a push holds the lock of its queue.
PopsBlockedOnEmpty ==
    /\ scheduler.total = 0
    /\ Stored = 0
    /\ \A t \in Poppers : tasks[t].pc = "start"
    /\ \E t \in Pushers : tasks[t].pc = "push_back"
    /\ rr_hist.popped # <<>>

\* C31: a call of calculate_new_exponent that finds the round over records the
\* tracked round as successful exactly when one of the proposals registered for it
\* has a summit, so as failed when none was registered, and leaves no proposal
\* registered.  The entry is looked at where it stays in the history: the exponent
\* is kept and no more rounds were crossed than the history holds.
C31_SuccessIffSummit ==
    [][(m_op'.name = "calculate_new_exponent" /\ Crossed(meter, now') >= 1) =>
          /\ meter'.proposals = <<>>
          /\ meter.proposals = <<>> => ~m_op'.summit
          /\ (/\ meter'.current_round_exp = meter.current_round_exp
              /\ Crossed(meter, now') <= NUM_ROUNDS_TO_CONSIDER) =>
                 /\ Len(meter'.rounds) >= Crossed(meter, now')
                 /\ meter'.rounds[Crossed(meter, now')] = m_op'.summit
                 /\ meter.proposals = <<>> => ~meter'.rounds[Crossed(meter, now')]]_vars

\* The round that just ended had a proposal with a summit and is the newest entry.
C31_Witness ==
    /\ Calculated
    /\ m_op.summit
    /\ m_op.change = "none"
    /\ meter.proposals = <<>>
    /\ Len(meter.rounds) > 1
    /\ meter.rounds[1]
    /\ ~meter.rounds[2]

\* C40: e.iter_bonded(n) yields e - n, or era 0 when n is more than e, and every
\* era after it up to e itself, one by one in ascending order; e.iter_other(n)
\* yields the same without e.  For era 0 these are era 0 alone and nothing.
C40_BondedWindow ==
    id_pc = "iter" =>
        LET bonded == id_iter.bonded
            other == id_iter.other
        IN  /\ bonded # <<>>
            /\ bonded[Len(bonded)] = era_id
            /\ \A i \in 1 .. (Len(bonded) - 1) :
                   /\ bonded[i + 1] = wrapping_add(bonded[i], U64(1))
                   /\ Carry(bonded[i], U64(1), NumLimbs) = 0
            /\ \/ /\ wrapping_add(bonded[1], id_x) = era_id
                  /\ Carry(bonded[1], id_x, NumLimbs) = 0
               \/ /\ bonded[1] = U64(0)
                  /\ \E i \in 1 .. NumLimbs :
                         /\ era_id[i] < id_x[i]
                         /\ \A j \in (i + 1) .. NumLimbs : era_id[j] = id_x[j]
            /\ other = SubSeq(bonded, 1, Len(bonded) - 1)
            /\ era_id = U64(0) => (bonded = <<U64(0)>> /\ other = <<>>)

\* A window that is cut off at era 0.
C40_Witness ==
    /\ id_pc = "iter"
    /\ era_id = U64(1)
    /\ id_x = U64(MaxWindow)
    /\ id_iter.bonded = <<U64(0), U64(1)>>
    /\ id_iter.other = <<U64(0)>>

\* A window that ends at the largest era.
WindowAtLargestEra ==
    /\ id_pc = "iter"
    /\ era_id = U64_MAX
    /\ id_x = U64(2)
    /\ Len(id_iter.bonded) = 3
    /\ Len(id_iter.other) = 2

\* C34 as stated: no FinalizedProtoBlock event lowers next_finalized.
C34_NextFinalizedNeverDecreases ==
    [][(/\ proposer.state = "Ready"
        /\ bp_op'.name = "FinalizedProtoBlock") =>
           proposer'.ready.sets.next_finalized >= proposer.ready.sets.next_finalized]_vars

\* What the code does with a block below next_finalized: it is handled as the block
\* of next_finalized is, and next_finalized is set to the height after it.
StaleBlockSetsNextFinalized ==
    [][(/\ proposer.state = "Ready"
        /\ bp_op'.name = "FinalizedProtoBlock"
        /\ bp_op'.height < proposer.ready.sets.next_finalized
        /\ bp_op'.height \notin DOMAIN proposer.ready.sets.finalization_queue) =>
           /\ proposer'.ready.sets.next_finalized = bp_op'.height + 1
           /\ bp_out'.handled = <<bp_op'.height>>]_vars

\* The ready state and the effects after the first i buffered events were handled
\* one after the other by a new ready state waiting for next_finalized_block.
RECURSIVE ReplayedUpTo(_, _, _)
ReplayedUpTo(pending, next_finalized_block, i) ==
    IF i = 0
    THEN [ready |-> BlockProposerReady_new(
                        [BlockProposerDeploySets_default EXCEPT
                            !.next_finalized = next_finalized_block]),
          effects |-> <<>>]
    ELSE LET before == ReplayedUpTo(pending, next_finalized_block, i - 1)
             did == BlockProposerReady_handle_event(before.ready, pending[i])
         IN  [ready |-> did.ready, effects |-> before.effects \o did.effects]

\* C32: while Initializing, an event other than Loaded is put at the end of the
\* buffer and nothing else changes or comes out; Loaded makes the proposer Ready with
\* an empty buffer, in the state and with the effects of handling the buffered
\* events once each in the order they came, and starts the prune timer; a Ready
\* proposer stays Ready.
C32_BufferedWhileInitializing ==
    [][/\ (proposer.state = "Initializing" /\ bp_op'.name # "Loaded") =>
              /\ proposer' = [proposer EXCEPT !.pending = Append(@, bp_op')]
              /\ bp_out'.effects = <<>>
              /\ bp_out'.handled = <<>>
       /\ (proposer.state = "Initializing" /\ bp_op'.name = "Loaded") =>
              LET replayed == ReplayedUpTo(proposer.pending,
                                           bp_op'.next_finalized_block,
                                           Len(proposer.pending))
              IN  /\ proposer'.state = "Ready"
                  /\ proposer'.pending = <<>>
                  /\ proposer'.ready = replayed.ready
                  /\ bp_out'.effects = replayed.effects \o <<SetTimeout>>
       /\ proposer.state = "Ready" => proposer'.state = "Ready"]_vars

\* Loaded came after a request and the block the request waited for: the replay
\* handled the block and answered the request.
C32_Witness ==
    /\ proposer.state = "Ready"
    /\ proposer.pending = <<>>
    /\ bp_op.name = "Loaded"
    /\ bp_out.handled # <<>>
    /\ bp_out.effects = <<Respond(RequestProtoBlock(1)), SetTimeout>>

\* The answers to requests for next_finalized among the effects.
Answers(effects, next_finalized) ==
    Cardinality({i \in DOMAIN effects : effects[i] = Respond(RequestProtoBlock(next_finalized))})

NoCallInProgress == \A t \in Pushers \cup Poppers : tasks[t].pc = "start"

\* C35 as stated: no pop takes an item from a queue whose event_count is 0, and
\* whenever no push and no pop is under way the event_count of every queue is the
\* number of its items and the counts add up to item_count().
C35_EventCountExact ==
    /\ [][\A key \in DOMAIN scheduler.queues :
              scheduler'.queues[key].queue # scheduler.queues[key].queue
                  /\ rr_hist'.popped # rr_hist.popped =>
                      scheduler.queues[key].event_count # U64(0)]_vars
    /\ [](NoCallInProgress =>
             /\ \A key \in DOMAIN scheduler.queues :
                    scheduler.queues[key].event_count =
                        U64(Len(scheduler.queues[key].queue))
             /\ scheduler.total = Stored)

\* What holds of the code: with no call under way the counts are exact.
EventCountExactAtRest ==
    NoCallInProgress =>
        /\ \A key \in DOMAIN scheduler.queues :
               scheduler.queues[key].event_count = U64(Len(scheduler.queues[key].queue))
        /\ scheduler.total = Stored

\* What holds of the code in every state: the count of a queue is the number of its
\* items less the pushes between push_back and fetch_add, in wrapping arithmetic.
EventCountLagsBehind ==
    \A t \in Pushers :
        LET q == scheduler.queues[Pushes[t].queue]
        IN  q.event_count =
                IF tasks[t].pc = "fetch_add"
                THEN fetch_sub(U64(Len(q.queue)))
                ELSE U64(Len(q.queue))

\* A pop took the only item of a queue between its push_back and its fetch_add: the
\* event_count of the queue went from 0 to u64::MAX.
EventCountWrapped ==
    \E t \in Pushers :
        /\ tasks[t].pc = "fetch_add"
        /\ scheduler.queues[Pushes[t].queue].queue = <<>>
        /\ scheduler.queues[Pushes[t].queue].event_count = U64_MAX

\* The items the pops returned with the key, in the order of the pops.
PoppedFrom(key) ==
    LET from == SelectSeq(rr_hist.popped, LAMBDA p : p.key = key)
    IN  [i \in DOMAIN from |-> from[i].item]

\* The items the task has put into its queue, in the order of its pushes.
PutIn(t) ==
    SubSeq(Pushes[t].items, 1,
           tasks[t].sent + (IF tasks[t].pc \in {"fetch_add", "add_permits"} THEN 1 ELSE 0))

\* C36: at any moment the items popped with a key, in the order of the pops, followed
\* by the items in the queue of that key, are the items pushed to that queue in the
\* order of the pushes, so that no item is lost, doubled, returned under another key
\* or overtaken by a later item of its queue; and every item pushed is popped in the
\* end.
C36_NoLossFifo ==
    /\ [](\A t \in Pushers :
              PoppedFrom(Pushes[t].queue) \o scheduler.queues[Pushes[t].queue].queue
                  = PutIn(t))
    /\ [](\A i \in DOMAIN rr_hist.popped :
              \E t \in Pushers :
                  /\ rr_hist.popped[i].key = Pushes[t].queue
                  /\ \E j \in DOMAIN Pushes[t].items :
                         Pushes[t].items[j] = rr_hist.popped[i].item)
    /\ <>[](/\ Len(rr_hist.popped) = TotalItems
            /\ \A t \in Pushers : PoppedFrom(Pushes[t].queue) = Pushes[t].items)

\* Pushes and pops went on side by side: an item of each queue was popped before the
\* last items were pushed, and in the end all six were popped.
C36_Witness ==
    /\ ~rr_hist.quiet
    /\ Len(rr_hist.popped) = TotalItems
    /\ rr_hist.popped[1].key = "Two"
    /\ rr_hist.popped[TotalItems].key = "Two"

\* The sum of the weights of the queues other than the i-th.
RECURSIVE OtherWeights(_, _)
OtherWeights(i, n) ==
    IF n = 0 THEN 0
    ELSE OtherWeights(i, n - 1) + (IF n = i THEN 0 ELSE weights[n].tickets)

\* C37: while an item is at the head of a queue, the pops that return items of other
\* queues are never more than the sum of the weights of the other queues, and so never
\* more than that sum and the tickets left on the active slot, whatever is pushed to
\* the other queues meanwhile.
C37_NoStarvation ==
    \A i \in DOMAIN weights :
        /\ rr_hist.waited[i] <= OtherWeights(i, Len(weights))
        /\ rr_hist.waited[i] <=
               OtherWeights(i, Len(weights)) + scheduler.state.active_slot.tickets

\* The head of One has waited for two pops from Two, as many as Two has tickets, while
\* a third item is in Two, or is being pushed to it.
C37_Witness ==
    /\ rr_hist.waited[Weight("One")] = OtherWeights(Weight("One"), Len(weights))
    /\ scheduler.queues["One"].queue # <<>>
    /\ \/ scheduler.queues["Two"].queue # <<>>
       \/ tasks["future2"].pc # "start"

\* The head of Two has waited for a pop from One while One has more items.
HeadOfTwoWaited ==
    /\ rr_hist.waited[Weight("Two")] = OtherWeights(Weight("Two"), Len(weights))
    /\ scheduler.queues["Two"].queue # <<>>
    /\ scheduler.queues["One"].queue # <<>>

\* C38 as stated: handling BootstrappingFailed never finds its address missing from
\* pending.
C38_BootstrapAssertionHolds ==
    ~(net_op.name = "BootstrappingFailed" /\ net_op.outcome = "panic")

\* What holds of the code: a BootstrappingFailed for an address in pending takes it
\* out and does not panic; for an address not in pending it panics.
BootstrapAssertionFailsOffPending ==
    [][net_op'.name = "BootstrappingFailed" =>
           /\ small_network'.pending = small_network.pending \ {net_op'.peer_address}
           /\ net_op'.outcome = "panic" <=>
                  net_op'.peer_address \notin small_network.pending]_vars

\* Two known addresses were the same socket address; the attempt for one ended and
\* its event was handled, and the event of the other found the address gone.
SameAddressTwice ==
    /\ net_op.name = "BootstrappingFailed"
    /\ net_op.outcome = "panic"
    /\ net_op.peer_address = "A"
    /\ InFlight(net_tasks) = 0
    /\ DOMAIN small_network.incoming = {}

\* The gas of the deploys of the list.
RECURSIVE PaymentGas(_)
PaymentGas(hashes) ==
    IF hashes = <<>> THEN 0
    ELSE DeployTypes[Head(hashes)].payment_amount_gas + PaymentGas(Tail(hashes))

\* The limits of a proposed block other than the kinds of its deploys.
WithinLimits ==
    LET block == pb_block.block
        included == Range(block.transfers) \cup Range(block.wasm_deploys)
    IN  /\ Len(block.transfers) <= pb_call.deploy_config.block_max_transfer_count
        /\ \A hash \in Range(block.transfers) : DeployTypes[hash].is_transfer
        /\ Len(block.wasm_deploys) <= pb_call.deploy_config.block_max_deploy_count
        /\ included \cap (pb_call.past_deploys \cup pb_call.finalized_deploys) = {}
        /\ PaymentGas(block.transfers \o block.wasm_deploys)
               <= pb_call.deploy_config.block_gas_limit

\* C39 as stated: a proposed block has at most block_max_transfer_count transfers,
\* all of them transfers, at most block_max_deploy_count deploys, none of them a
\* transfer, nothing in past_deploys or finalized, and gas within block_gas_limit.
C39_ProtoBlockWithinLimits ==
    pb_block.proposed =>
        /\ WithinLimits
        /\ \A hash \in Range(pb_block.block.wasm_deploys) : ~DeployTypes[hash].is_transfer

\* What holds of the code: the limits other than the kinds of the deploys; and a
\* transfer is among the deploys only if the transfers were full when it was reached.
ProtoBlockWithinLimitsButKinds ==
    pb_block.proposed =>
        /\ WithinLimits
        /\ (\E hash \in Range(pb_block.block.wasm_deploys) : DeployTypes[hash].is_transfer)
               => Len(pb_block.block.transfers) =
                      pb_call.deploy_config.block_max_transfer_count

\* With room for one transfer and one deploy and the transfers t1 and t2 pending, t1
\* is proposed as the transfer and t2 as the deploy.
TransferAmongDeploys ==
    /\ pb_block.proposed
    /\ pb_call.pending = <<"t1", "t2">>
    /\ pb_block.block.transfers = <<"t1">>
    /\ pb_block.block.wasm_deploys = <<"t2">>

====
